---- MODULE Spec2Model ----
(***************************************************************************)
(* State-machine model of Hurricane's orchestration core:                  *)
(*   - MultiAgentSystem   (src/hurricane/modules/multi_agent_system.py)    *)
(*   - AutonomousPlanner  (src/hurricane/modules/autonomous_planner.py)    *)
(*   - HurricaneAgent.execute_autonomous_task (src/hurricane/core/agent.py)*)
(*   - ReactiveMonitor    (src/hurricane/modules/reactive_monitor.py)      *)
(*                                                                         *)
(* Every coroutine runs on one asyncio event loop, so a step of the model  *)
(* is the code between two suspension points (awaits that really yield:    *)
(* asyncio.sleep).  Awaiting create_task / assign_task / _update_goal_...  *)
(* does not yield, so those calls are part of the step that makes them.    *)
(* ReactiveMonitor runs on threads: the caller's, the observer's (the file  *)
(* handler) and the monitoring loop's; a step is one call of the caller,   *)
(* one event put on the queue, or one stage of the loop.                   *)
(***************************************************************************)
EXTENDS Integers, Sequences, FiniteSets, Bags, TLC

(***************************************************************************)
(* Bounds of the model.                                                    *)
(***************************************************************************)
MaxTasks == 2       \* AgentTasks ever created in one behaviour
MaxSteps == 2       \* steps of a workflow definition
MaxDeps == 1        \* ids in one dependencies list
MaxPTasks == 3      \* AutonomousTasks ever created in one behaviour
MaxGoals == 1       \* goals ever set in one behaviour
MaxActions == 1     \* entries of one autonomous_actions list
MaxSuggestions == 2 \* suggestions there are when _generate_proactive_suggestions is called directly
MaxBoots == 1       \* components constructed on an existing store in one behaviour
MaxDamage == 1      \* files of the store that are damaged at one time

(***************************************************************************)
(* Values.  Task ids are uuid4 strings in the code; the model uses the     *)
(* creation index 1, 2, ... .  A dependency id is any string: the ids of   *)
(* tasks that exist when the list is written, or a name that is no task id *)
(* (a workflow-local step reference).  StepRef(k) is the name a step uses  *)
(* for the k-th step of its workflow; it is never a task id.               *)
(***************************************************************************)
NoTask == 0
StepRef(k) == 0 - k
GhostId == StepRef(1)       \* the unknown id used by direct create_task calls

\* AgentRole: coder stands for the roles whose execution calls the
\* generation service and can therefore return {"success": False} (coder,
\* tester, documenter); reviewer for those that always return success
\* (reviewer, deployer, monitor, coordinator).
Roles == {"coder", "reviewer"}
FallibleRoles == {"coder"}
BadRole == "bogus"          \* a step whose "agent" is no AgentRole value (or that lacks a field)
Priorities == {3}           \* AgentTask.priority; no code path of the scheduler reads it

VARIABLES
    tasks,          \* MultiAgentSystem.tasks: id -> AgentTask
    task_queue,     \* MultiAgentSystem.task_queue
    agents,         \* MultiAgentSystem.agents: role -> Agent
    workflows,      \* MultiAgentSystem.workflows: id -> steps
    execs,          \* _execute_task coroutines in flight (bag of [task, pc])
    wf,             \* the execute_workflow call: its position, locals and result
    tasks_file,     \* agent_tasks.json
    agents_file     \* agents.json

masVars == <<tasks, task_queue, agents, workflows, execs, wf, tasks_file, agents_file>>

VARIABLES
    goals,          \* AutonomousPlanner.goals: id -> Goal
    ptasks,         \* AutonomousPlanner.tasks: id -> AutonomousTask
    decisions,      \* AutonomousPlanner.decisions (the task id of each entry)
    suggestions,    \* AutonomousPlanner.proactive_suggestions (the task id of each entry)
    pexecs,         \* execute_autonomous_task coroutines suspended in an action (bag of [task, left])
    sg,             \* the set_goal call: its position, its goal, the service's answer
    presult,        \* what the last execute_autonomous_task call returned
    goals_file,     \* goals.json
    ptasks_file,    \* autonomous_tasks.json
    decisions_file  \* decisions.json

planVars == <<goals, ptasks, decisions, suggestions, pexecs, sg, presult,
              goals_file, ptasks_file, decisions_file>>

VARIABLES
    is_monitoring,      \* ReactiveMonitor.is_monitoring
    observer,           \* ReactiveMonitor.observer (NoObserver for None)
    monitoring_thread,  \* ReactiveMonitor.monitoring_thread (NoThread for None)
    loops,              \* the threads that run _monitoring_loop: set of [id, pc, n]
    event_queue,        \* ReactiveMonitor.event_queue
    file_events,        \* ReactiveMonitor.file_events
    notifications,      \* ReactiveMonitor.notifications
    events_file,        \* file_events.json
    notifications_file, \* notifications.json
    stopper,            \* the stop_monitoring call: "idle", or "joining" the loop thread
    clock,              \* the time, in periods of more than 60 seconds
    made,               \* observers, threads and events made so far
    mon_call            \* the last call of the monitor's interface and its outcome

monVars == <<is_monitoring, observer, monitoring_thread, loops, event_queue,
             file_events, notifications, events_file, notifications_file,
             stopper, clock, made, mon_call>>

VARIABLES
    workflows_file, \* workflows.json
    boot,           \* the last construction of a component and how it ended
    writers         \* the calls of _save_notifications between their snapshot
                    \* of the list and the close of notifications.json

storeVars == <<workflows_file, boot, writers>>

vars == <<masVars, planVars, monVars, storeVars>>

----
(***************************************************************************)
(* The store: the JSON files under .hurricane.  The content of a file is   *)
(* nothing (no file), text that json.load rejects or a file that open      *)
(* cannot read, a JSON document of another shape than the collection's,    *)
(* or the JSON document a save wrote.                                      *)
(***************************************************************************)
NoFile == [kind |-> "absent", data |-> <<>>]
Unparseable == [kind |-> "corrupt", data |-> <<>>]
WrongShape == [kind |-> "other", data |-> <<0>>]    \* the document [0]
Stored(d) == [kind |-> "json", data |-> d]

\* No component was constructed on a store that already existed.
NoBoot == [component |-> "none", raised |-> FALSE, n |-> 0]

\* A loader that builds the records of its collection from the document:
\* json.load and the constructors run inside try, and the except branch and
\* a missing file give the empty collection.  raised tells whether an
\* exception leaves the loader.
Loaded_Unhandled(f) ==
    [raised |-> f.kind \in {"corrupt", "other"},
     value |-> IF f.kind = "json" THEN f.data ELSE <<>>]

Loaded(f) == [raised |-> FALSE, value |-> IF f.kind = "json" THEN f.data ELSE <<>>]

\* A loader that returns what json.load returned, whatever its shape.
Unvalidated(f) ==
    [raised |-> FALSE, value |-> IF f.kind \in {"json", "other"} THEN f.data ELSE <<>>]

----
(***************************************************************************)
(* MultiAgentSystem                                                        *)
(***************************************************************************)

AgentTask(role, prio, deps) ==
    [assigned_agent |-> role, status |-> "pending", priority |-> prio,
     dependencies |-> deps]

Agent == [current_task |-> NoTask]

\* _save_tasks: every task with its enums as their values.
SaveAgentTasks(ts) == Stored(ts)

\* _load_tasks: the enums are rebuilt from their values.
LoadAgentTasks(f) == Loaded(f)

\* _save_agents: asdict of every agent, current_task included.
SaveAgents(ag) == Stored(ag)

\* _initialize_agents: the agents are built afresh, and only task_history,
\* performance_metrics and is_active are taken from the file; current_task
\* keeps its default.
LoadAgents(f) == [raised |-> FALSE, value |-> [r \in Roles |-> Agent]]

\* _load_workflows.
LoadWorkflows(f) == Unvalidated(f)

RemoveFirst(s, x) ==
    IF \E i \in 1..Len(s) : s[i] = x
    THEN LET i == CHOOSE j \in 1..Len(s) : s[j] = x /\ \A k \in 1..(j-1) : s[k] # x
         IN  SubSeq(s, 1, i-1) \o SubSeq(s, i+1, Len(s))
    ELSE s

\* The mutable state of the system that the handlers thread through.
Sys == [tasks |-> tasks, task_queue |-> task_queue, agents |-> agents,
        execs |-> execs, tasks_file |-> tasks_file, agents_file |-> agents_file]

SetSys(S) ==
    /\ tasks' = S.tasks
    /\ task_queue' = S.task_queue
    /\ agents' = S.agents
    /\ execs' = S.execs
    /\ tasks_file' = S.tasks_file
    /\ agents_file' = S.agents_file

\* create_task: a fresh id, status PENDING, appended to the queue, saved.
CreateTaskIn(S, role, prio, deps) ==
    LET ts == Append(S.tasks, AgentTask(role, prio, deps))
    IN  [S EXCEPT !.tasks = ts,
                  !.task_queue = Append(@, Len(ts)),
                  !.tasks_file = SaveAgentTasks(ts)]

\* Mutation of AgentAvailable: the busy check is dropped.
AgentAvailable_NoBusyCheck(a) == TRUE

\* assign_task, line 309: the agent is free.
AgentAvailable(a) == a.current_task = NoTask

\* assign_task, lines 314-317: only a KNOWN dependency that is not completed blocks.
DepsAllow(ts, id) ==
    \A d \in ts[id].dependencies :
        ~(d \in DOMAIN ts /\ ts[d].status # "completed")

AssignOk(S, id) ==
    /\ id \in DOMAIN S.tasks
    /\ AgentAvailable(S.agents[S.tasks[id].assigned_agent])
    /\ DepsAllow(S.tasks, id)

\* assign_task: on success the task is ASSIGNED, the agent holds it, an
\* _execute_task coroutine is scheduled, tasks and agents are saved.
AssignTaskIn(S, id) ==
    IF ~AssignOk(S, id) THEN S
    ELSE LET ts == [S.tasks EXCEPT ![id].status = "assigned"]
             ag == [S.agents EXCEPT ![S.tasks[id].assigned_agent].current_task = id]
         IN  [S EXCEPT !.tasks = ts,
                       !.agents = ag,
                       !.execs = @ (+) SetToBag({[task |-> id, pc |-> "start"]}),
                       !.tasks_file = SaveAgentTasks(ts),
                       !.agents_file = SaveAgents(ag)]

\* _coordinate_workflow_tasks, lines 605-608.
DepsReady(ts, id) ==
    \A d \in ts[id].dependencies :
        d \in DOMAIN ts /\ ts[d].status = "completed"

\* _coordinate_workflow_tasks, lines 599-611.
ReadyTasks(ts, ids) ==
    SelectSeq(ids, LAMBDA id : ts[id].status = "pending" /\ DepsReady(ts, id))

\* _coordinate_workflow_tasks, lines 614-616: every ready task is handed to
\* assign_task and removed from task_ids whatever assign_task returned.
RECURSIVE AssignReady(_, _, _)
AssignReady(S, ready, ids) ==
    IF ready = <<>> THEN [S |-> S, ids |-> ids]
    ELSE AssignReady(AssignTaskIn(S, Head(ready)), Tail(ready),
                     RemoveFirst(ids, Head(ready)))

\* _coordinate_workflow_tasks, lines 622-625.
FailedTasks(ts, ids) ==
    SelectSeq(ids, LAMBDA id : id \in DOMAIN ts /\ ts[id].status = "failed")

\* execute_workflow, lines 572-581: tasks are created step by step until a
\* step raises (AgentRole(step["agent"]) or a missing key).
RECURSIVE CreateSteps(_, _, _)
CreateSteps(S, steps, ids) ==
    IF steps = <<>> THEN [S |-> S, ids |-> ids, raised |-> FALSE]
    ELSE IF Head(steps).agent \notin Roles
         THEN [S |-> S, ids |-> ids, raised |-> TRUE]
         ELSE LET S2 == CreateTaskIn(S, Head(steps).agent, Head(steps).priority,
                                     Head(steps).dependencies)
              IN  CreateSteps(S2, Tail(steps), Append(ids, Len(S2.tasks)))

SeqToSet(s) == {s[i] : i \in 1..Len(s)}

\* One pass of the while loop of _coordinate_workflow_tasks up to its
\* asyncio.sleep(1), or the return of execute_workflow when task_ids is empty.
CoordinateFrom(S, ids, created) ==
    IF ids = <<>>
    THEN /\ SetSys(S)
         /\ wf' = [pc |-> "returned", task_ids |-> ids, created |-> created,
                   success |-> TRUE]
    ELSE LET r == AssignReady(S, ReadyTasks(S.tasks, ids), ids)
         IN  /\ SetSys(r.S)
             /\ wf' = [pc |-> "sleep", task_ids |-> r.ids, created |-> created,
                       success |-> FALSE]

Idle == [pc |-> "idle", task_ids |-> <<>>, created |-> {}, success |-> FALSE]

\* Workflow definitions: each step names its agent, its priority and its
\* dependencies among the workflow-local positions of the other steps.
StepsOf(n) ==
    [agent : Roles \cup {BadRole}, priority : Priorities,
     dependencies : {d \in SUBSET {StepRef(k) : k \in 1..n} : Cardinality(d) <= MaxDeps}]

StepLists ==
    UNION {{s \in [1..n -> StepsOf(n)] :
                \A k \in 1..n : StepRef(k) \notin s[k].dependencies} : n \in 0..MaxSteps}

\* workflows.json as _load_workflows finds it: no file, or the stored definitions.
StoredWorkflows == {<<>>} \cup {<<s>> : s \in StepLists}

----
\* create_task called directly.
CreateTask(role, prio, deps) ==
    /\ Len(tasks) < MaxTasks
    /\ SetSys(CreateTaskIn(Sys, role, prio, deps))
    /\ UNCHANGED <<workflows, wf>>
    /\ UNCHANGED <<planVars, monVars, storeVars>>

\* assign_task called directly, with any id.
AssignTask(id) ==
    /\ AssignOk(Sys, id)
    /\ SetSys(AssignTaskIn(Sys, id))
    /\ UNCHANGED <<workflows, wf>>
    /\ UNCHANGED <<planVars, monVars, storeVars>>

\* _execute_task, lines 335-343: up to the first suspension of the role's executor.
ExecStart(e) ==
    /\ e \in BagToSet(execs)
    /\ e.pc = "start"
    /\ tasks' = [tasks EXCEPT ![e.task].status = "in_progress"]
    /\ execs' = (execs (-) SetToBag({e})) (+) SetToBag({[e EXCEPT !.pc = "running"]})
    /\ UNCHANGED <<task_queue, agents, workflows, wf, tasks_file, agents_file>>
    /\ UNCHANGED <<planVars, monVars, storeVars>>

\* Mutation of Released: the finally block leaves the agent as it is.
Released_Kept(ag, role) == ag

\* _execute_task, line 366: the agent is released.
Released(ag, role) == [ag EXCEPT ![role].current_task = NoTask]

\* _execute_task, lines 345-373: the executor returned; the finally block
\* releases the agent, drops the task from the queue and saves.
ExecFinish(e, ok) ==
    /\ e \in BagToSet(execs)
    /\ e.pc = "running"
    /\ ok \/ tasks[e.task].assigned_agent \in FallibleRoles
    /\ LET ts == [tasks EXCEPT ![e.task].status = IF ok THEN "completed" ELSE "failed"]
           ag == Released(agents, tasks[e.task].assigned_agent)
       IN  /\ tasks' = ts
           /\ agents' = ag
           /\ tasks_file' = SaveAgentTasks(ts)
           /\ agents_file' = SaveAgents(ag)
    /\ task_queue' = RemoveFirst(task_queue, e.task)
    /\ execs' = execs (-) SetToBag({e})
    /\ UNCHANGED <<workflows, wf>>
    /\ UNCHANGED <<planVars, monVars, storeVars>>

\* execute_workflow, from the call to its first suspension (or its return).
WfStart(w) ==
    /\ wf.pc \in {"idle", "returned"}
    /\ w \in DOMAIN workflows
    /\ Len(tasks) + Len(workflows[w]) <= MaxTasks
    /\ LET c == CreateSteps(Sys, workflows[w], <<>>)
       IN  IF c.raised
           THEN /\ SetSys(c.S)
                /\ wf' = [pc |-> "returned", task_ids |-> c.ids,
                          created |-> SeqToSet(c.ids), success |-> FALSE]
           ELSE CoordinateFrom(c.S, c.ids, SeqToSet(c.ids))
    /\ UNCHANGED workflows
    /\ UNCHANGED <<planVars, monVars, storeVars>>

\* execute_workflow with an id that names no workflow.
WfNotFound ==
    /\ wf.pc \in {"idle", "returned"}
    /\ wf' = [Idle EXCEPT !.pc = "returned"]
    /\ UNCHANGED <<tasks, task_queue, agents, workflows, execs, tasks_file, agents_file>>
    /\ UNCHANGED <<planVars, monVars, storeVars>>

\* _coordinate_workflow_tasks after asyncio.sleep(1): the failure check, then
\* the next pass of the loop or the return of execute_workflow.
WfWake ==
    /\ wf.pc = "sleep"
    /\ IF FailedTasks(tasks, wf.task_ids) # <<>>
       THEN /\ wf' = [wf EXCEPT !.pc = "returned", !.success = TRUE]
            /\ UNCHANGED <<tasks, task_queue, agents, execs, tasks_file, agents_file>>
       ELSE CoordinateFrom(Sys, wf.task_ids, wf.created)
    /\ UNCHANGED workflows
    /\ UNCHANGED <<planVars, monVars, storeVars>>

\* MultiAgentSystem.__init__ on a project that has at most a workflows file.
MasFresh(wfs) ==
    /\ tasks = <<>>
    /\ task_queue = <<>>
    /\ agents = [r \in Roles |-> Agent]
    /\ workflows = wfs
    /\ execs = EmptyBag
    /\ wf = Idle
    /\ tasks_file = NoFile
    /\ agents_file = NoFile
    /\ workflows_file = (IF wfs = <<>> THEN NoFile ELSE Stored(wfs))

----
(***************************************************************************)
(* AutonomousPlanner                                                       *)
(*                                                                         *)
(* The generation service is the injected ollama_client: it raises or      *)
(* returns text.  A Response is that outcome as json.loads and the loop of *)
(* _decompose_goal_into_tasks see it.  Task ids are creation indexes, and  *)
(* created_at grows with them.                                             *)
(***************************************************************************)
NoGoal == 0
NullActions == 0 - 1        \* "autonomous_actions": null (not iterable)
ItemRef(k) == 0 - k         \* the name an item uses for the k-th item of its answer

TaskPriority == {"critical", "high", "medium", "low"}
ItemPriorities == {"medium"}    \* priorities the answers of the model use
GoalPriorities == {"medium"}    \* priorities the callers of set_goal use

\* Progress is (completed / total) * 100; the model keeps it exactly, in
\* units of 1/PctUnit percent.
PctUnit == 3 * 4 * 5
Pct(completed, total) == (completed * 100 * PctUnit) \div total
Pct100 == 100 * PctUnit

\* One element of the parsed answer: a task record, or something the loop
\* body raises on (no "title"/"description", not a record, unknown priority).
InvalidItem ==
    [valid |-> FALSE, priority |-> "medium", dependencies |-> {}, deps_null |-> FALSE,
     actions |-> 0, approval |-> FALSE]

ValidItems(k) ==
    [valid : {TRUE}, priority : ItemPriorities,
     dependencies : IF k > 1 THEN {{}, {ItemRef(k - 1)}} ELSE {{}},
     deps_null : {FALSE}, actions : {NullActions} \cup 0..MaxActions, approval : BOOLEAN]
    \cup
    [valid : {TRUE}, priority : ItemPriorities, dependencies : {{}},
     deps_null : {TRUE}, actions : {MaxActions}, approval : BOOLEAN]

ItemLists ==
    UNION {{s \in [1..n -> UNION {ValidItems(k) : k \in 1..n} \cup {InvalidItem}] :
                \A k \in 1..n : s[k] = InvalidItem \/ s[k] \in ValidItems(k)}
           : n \in 0..MaxPTasks}

\* raise:    generate_response raised
\* not_json: json.loads raised
\* scalar:   a JSON number, boolean or null (the for loop raises)
\* object:   a JSON object or string (the loop runs over keys or characters)
\* list:     a JSON array
Responses ==
    [kind : {"raise", "not_json", "scalar"}, items : {<<>>}]
    \cup [kind : {"object"}, items : {<<>>, <<InvalidItem>>}]
    \cup [kind : {"list"}, items : ItemLists]

NoResponse == [kind |-> "none", items |-> <<>>]

Goal(prio) ==
    [priority |-> prio, status |-> "active", progress_percentage |-> 0,
     subtasks |-> <<>>]

\* _decompose_goal_into_tasks, lines 291-308.
AutonomousTask(g, item) ==
    [goal_context |-> g, priority |-> item.priority, status |-> "planned",
     dependencies |-> item.dependencies, deps_null |-> item.deps_null,
     actions |-> item.actions, human_approval_required |-> item.approval,
     progress_percentage |-> 0, fallback |-> FALSE, error |-> FALSE]

\* _decompose_goal_into_tasks, lines 320-337.
FallbackTask(g, prio) ==
    [goal_context |-> g, priority |-> prio, status |-> "planned",
     dependencies |-> {}, deps_null |-> FALSE,
     actions |-> 2, human_approval_required |-> TRUE,
     progress_percentage |-> 0, fallback |-> TRUE, error |-> FALSE]

\* _save_goals: asdict keeps the priority of a goal as the TaskPriority member
\* the caller passed, which json.dump cannot encode: it raises after the file
\* was opened for writing and the text before the priority was written, and
\* the except branch reports the error.  Only an empty dictionary is written
\* whole.
SaveGoals(gs) ==
    IF \E g \in DOMAIN gs : gs[g].priority \in TaskPriority THEN Unparseable ELSE Stored(gs)

\* _load_goals.
LoadGoals(f) == Loaded(f)

\* _save_tasks: priority and status are written as their values.
SavePlannerTasks(ts) == Stored(ts)

\* _load_tasks: priority and status are rebuilt from their values.
LoadPlannerTasks(f) == Loaded(f)

\* _save_decisions.
SaveDecisions(ds) == Stored(ds)

\* _load_decisions.
LoadDecisions(f) == Unvalidated(f)

\* The planner state that the handlers thread through.
Plan == [goals |-> goals, ptasks |-> ptasks, goals_file |-> goals_file,
         ptasks_file |-> ptasks_file]

AddTask(P, g, t) ==
    LET ts == Append(P.ptasks, t)
    IN  [P EXCEPT !.ptasks = ts, !.goals[g].subtasks = Append(@, Len(ts))]

SaveTasksAndGoals(P) ==
    [P EXCEPT !.ptasks_file = SavePlannerTasks(P.ptasks), !.goals_file = SaveGoals(P.goals)]

\* The except branch of _decompose_goal_into_tasks, lines 317-342.
Fallback(P, g) == SaveTasksAndGoals(AddTask(P, g, FallbackTask(g, P.goals[g].priority)))

\* The for loop of _decompose_goal_into_tasks, lines 290-315: tasks are added
\* one by one; an element the body raises on ends the loop in the except branch.
RECURSIVE DecomposeItems(_, _, _)
DecomposeItems(P, g, items) ==
    IF items = <<>> THEN SaveTasksAndGoals(P)
    ELSE IF ~Head(items).valid THEN Fallback(P, g)
    ELSE DecomposeItems(AddTask(P, g, AutonomousTask(g, Head(items))), g, Tail(items))

\* _decompose_goal_into_tasks, lines 282-342.
Decompose(P, g, resp) ==
    IF resp.kind \in {"raise", "not_json", "scalar"} THEN Fallback(P, g)
    ELSE DecomposeItems(P, g, resp.items)

\* _generate_proactive_suggestions, lines 347-348.
ActiveTasks(ts, g) ==
    {t \in DOMAIN ts : ts[t].goal_context = g /\ ts[t].status = "planned"}

\* The key of _generate_proactive_suggestions, lines 354-358, and of
\* get_next_autonomous_task, lines 511-515, as one number: the third
\* component is below KeyBase.
KeyBase == MaxPTasks + MaxDeps + 1
SortKey(t, third) ==
    (IF t.priority # "critical" THEN 2 * KeyBase ELSE 0)
    + (IF t.priority # "high" THEN KeyBase ELSE 0) + third

\* _generate_proactive_suggestions, lines 354-358: the key of a task.
SuggestionKey(ts, t) == SortKey(ts[t], Cardinality(ts[t].dependencies))

\* get_next_autonomous_task, lines 511-515: the key of a task.
NextTaskKey(ts, t) == SortKey(ts[t], t)

\* min(): the first task, in dict order, with the least key.
FirstMin(S, k) ==
    CHOOSE t \in S : \A u \in S : k[t] < k[u] \/ (k[t] = k[u] /\ t <= u)

\* _generate_proactive_suggestions: "raise" when the goal is missing (line
\* 346) or len() is applied to a null dependencies (line 357), "none" when
\* the goal has no PLANNED task, else the suggested task.
SuggestionFor(gs, ts, g) ==
    IF g \notin DOMAIN gs THEN [kind |-> "raise", task |-> 0]
    ELSE IF ActiveTasks(ts, g) = {} THEN [kind |-> "none", task |-> 0]
    ELSE IF \E t \in ActiveTasks(ts, g) : ts[t].deps_null THEN [kind |-> "raise", task |-> 0]
    ELSE [kind |-> "some",
          task |-> FirstMin(ActiveTasks(ts, g),
                            [t \in ActiveTasks(ts, g) |-> SuggestionKey(ts, t)])]

CompletedCount(gs, ts, g) ==
    Cardinality({i \in 1..Len(gs[g].subtasks) :
                    /\ gs[g].subtasks[i] \in DOMAIN ts
                    /\ ts[gs[g].subtasks[i]].status = "completed"})

\* _update_goal_progress, lines 468-488.
UpdateGoalProgress(P, g) ==
    IF g \notin DOMAIN P.goals \/ P.goals[g].subtasks = <<>> THEN P
    ELSE LET p == Pct(CompletedCount(P.goals, P.ptasks, g), Len(P.goals[g].subtasks))
             gs == [P.goals EXCEPT ![g].progress_percentage = p,
                                   ![g].status = IF p = Pct100 THEN "completed" ELSE @]
         IN  [P EXCEPT !.goals = gs, !.goals_file = SaveGoals(gs)]

\* get_next_autonomous_task, lines 500-505; len() of a null dependencies raises.
NextRaises(ts) ==
    \E t \in DOMAIN ts :
        ts[t].status = "planned" /\ ~ts[t].human_approval_required /\ ts[t].deps_null

AutonomousCandidates(ts) ==
    {t \in DOMAIN ts : /\ ts[t].status = "planned"
                       /\ ~ts[t].human_approval_required
                       /\ Cardinality(ts[t].dependencies) = 0}

\* get_next_autonomous_task, lines 507-515 (NoTask for None).
GetNextAutonomousTask(ts) ==
    IF AutonomousCandidates(ts) = {} THEN NoTask
    ELSE FirstMin(AutonomousCandidates(ts),
                  [t \in AutonomousCandidates(ts) |-> NextTaskKey(ts, t)])

\* Mutation of Rejection: the approval check of line 384 is dropped.
Rejection_NoApproval(ts, t) ==
    IF t \notin DOMAIN ts THEN "not_found"
    ELSE IF ts[t].status # "planned" THEN "not_planned"
    ELSE "ok"

\* execute_autonomous_task, lines 379-388: why a call is rejected, or "ok".
Rejection(ts, t) ==
    IF t \notin DOMAIN ts THEN "not_found"
    ELSE IF ts[t].human_approval_required THEN "needs_approval"
    ELSE IF ts[t].status # "planned" THEN "not_planned"
    ELSE "ok"

\* execute_autonomous_task, lines 441-449: the except branch.
Block(t) ==
    LET ts == [ptasks EXCEPT ![t].status = "blocked", ![t].error = TRUE]
    IN  /\ ptasks' = ts
        /\ ptasks_file' = SavePlannerTasks(ts)
        /\ presult' = "blocked"
        /\ UNCHANGED <<goals, suggestions, goals_file, decisions_file>>

\* execute_autonomous_task, lines 418-439: the actions are done.  The task
\* is COMPLETED, the goal's progress is updated, the next suggestion is
\* generated; when that raises, the except branch makes the task BLOCKED.
Complete(t, ds) ==
    LET ts == [ptasks EXCEPT ![t].status = "completed", ![t].progress_percentage = 100]
        P  == UpdateGoalProgress([Plan EXCEPT !.ptasks = ts], ts[t].goal_context)
        sug == SuggestionFor(P.goals, P.ptasks, ts[t].goal_context)
    IN  /\ goals' = P.goals
        /\ goals_file' = P.goals_file
        /\ IF sug.kind = "raise"
           THEN LET tb == [ts EXCEPT ![t].status = "blocked", ![t].error = TRUE]
                IN  /\ ptasks' = tb
                    /\ ptasks_file' = SavePlannerTasks(tb)
                    /\ presult' = "blocked"
                    /\ UNCHANGED <<suggestions, decisions_file>>
           ELSE /\ ptasks' = ts
                /\ ptasks_file' = SavePlannerTasks(ts)
                /\ decisions_file' = SaveDecisions(ds)
                /\ presult' = "success"
                /\ suggestions' = IF sug.kind = "some"
                                  THEN Append(suggestions, sug.task) ELSE suggestions

\* The tasks while the call for task t waits for its actions.
Started_Late(ts, t) == ts

\* execute_autonomous_task, lines 392-394: the task is IN_PROGRESS from the
\* status test on, with no suspension between the two.
Started(ts, t) == [ts EXCEPT ![t].status = "in_progress"]

\* execute_autonomous_task from the call to its first suspension or return.
Execute(t) ==
    /\ Rejection(ptasks, t) = "ok"
    /\ decisions' = Append(decisions, t)
    /\ IF ptasks[t].actions = NullActions
       THEN Block(t) /\ UNCHANGED pexecs
       ELSE IF ptasks[t].actions = 0
       THEN Complete(t, Append(decisions, t)) /\ UNCHANGED pexecs
       ELSE /\ ptasks' = Started(ptasks, t)
            /\ pexecs' = pexecs (+) SetToBag({[task |-> t, left |-> ptasks[t].actions]})
            /\ UNCHANGED <<goals, suggestions, presult, goals_file, ptasks_file,
                           decisions_file>>

PlanFresh ==
    /\ goals = <<>>
    /\ ptasks = <<>>
    /\ decisions = <<>>
    /\ suggestions = <<>>
    /\ pexecs = EmptyBag
    /\ sg = [pc |-> "idle", goal |-> NoGoal, response |-> NoResponse]
    /\ presult = "none"
    /\ goals_file = NoFile
    /\ ptasks_file = NoFile
    /\ decisions_file = NoFile

----
\* set_goal, lines 212-235: the goal is stored, the service is asked.
SetGoalBegin(prio) ==
    /\ sg.pc # "awaiting"
    /\ Len(goals) < MaxGoals
    /\ goals' = Append(goals, Goal(prio))
    /\ sg' = [pc |-> "awaiting", goal |-> Len(goals) + 1, response |-> NoResponse]
    /\ UNCHANGED <<ptasks, decisions, suggestions, pexecs, presult, goals_file,
                   ptasks_file, decisions_file>>
    /\ UNCHANGED <<masVars, monVars, storeVars>>

\* set_goal, lines 235-241: the service answered; the goal is decomposed, a
\* suggestion is generated (set_goal raises when that raises) and the goals
\* are saved.
SetGoalFinish(resp) ==
    /\ sg.pc = "awaiting"
    /\ LET P == Decompose(Plan, sg.goal, resp)
           sug == SuggestionFor(P.goals, P.ptasks, sg.goal)
       IN  /\ Len(P.ptasks) <= MaxPTasks
           /\ goals' = P.goals
           /\ ptasks' = P.ptasks
           /\ ptasks_file' = P.ptasks_file
           /\ goals_file' = SaveGoals(P.goals)
           /\ suggestions' = IF sug.kind = "some"
                             THEN Append(suggestions, sug.task) ELSE suggestions
           /\ sg' = [sg EXCEPT !.pc = IF sug.kind = "raise" THEN "raised" ELSE "returned",
                               !.response = resp]
    /\ UNCHANGED <<decisions, pexecs, presult, decisions_file>>
    /\ UNCHANGED <<masVars, monVars, storeVars>>

\* execute_autonomous_task(task_id) called with any id, accepted.
ExecuteTask(t) ==
    /\ Execute(t)
    /\ UNCHANGED sg
    /\ UNCHANGED <<masVars, monVars, storeVars>>

\* The decision history after a call for task t that was rejected.
RejectedDecisions_Recorded(ds, t) == Append(ds, t)

\* execute_autonomous_task, lines 379-388: each of the three returns comes
\* before the decision is appended (line 409).
RejectedDecisions(ds, t) == ds

\* execute_autonomous_task(task_id) rejected: an error result, nothing else.
ExecuteRejected(t) ==
    /\ Rejection(ptasks, t) # "ok"
    /\ presult' = Rejection(ptasks, t)
    /\ decisions' = RejectedDecisions(decisions, t)
    /\ UNCHANGED <<goals, ptasks, suggestions, pexecs, sg, goals_file,
                   ptasks_file, decisions_file>>
    /\ UNCHANGED <<masVars, monVars, storeVars>>

\* execute_autonomous_task after the asyncio.sleep of an action: the next
\* action starts, or the task completes.
ExecuteResume(e) ==
    /\ e \in BagToSet(pexecs)
    /\ IF e.left > 1
       THEN /\ pexecs' = (pexecs (-) SetToBag({e})) (+) SetToBag({[e EXCEPT !.left = @ - 1]})
            /\ UNCHANGED <<goals, ptasks, suggestions, presult, goals_file,
                           ptasks_file, decisions_file>>
       ELSE /\ pexecs' = pexecs (-) SetToBag({e})
            /\ Complete(e.task, decisions)
    /\ UNCHANGED <<decisions, sg>>
    /\ UNCHANGED <<masVars, monVars, storeVars>>

\* HurricaneAgent.execute_autonomous_task (agentic mode enabled): the next
\* autonomous task is executed.
AgentExecute ==
    /\ ~NextRaises(ptasks)
    /\ \E t \in DOMAIN ptasks :
          /\ t = GetNextAutonomousTask(ptasks)
          /\ Execute(t)
    /\ UNCHANGED sg
    /\ UNCHANGED <<masVars, monVars, storeVars>>

\* HurricaneAgent.execute_autonomous_task when there is no next task
\* ("No autonomous tasks available") or get_next_autonomous_task raises.
AgentNothing ==
    /\ NextRaises(ptasks) \/ GetNextAutonomousTask(ptasks) = NoTask
    /\ presult' = IF NextRaises(ptasks) THEN "raised" ELSE "no_tasks"
    /\ UNCHANGED <<goals, ptasks, decisions, suggestions, pexecs, sg, goals_file,
                   ptasks_file, decisions_file>>
    /\ UNCHANGED <<masVars, monVars, storeVars>>

----
(***************************************************************************)
(* ReactiveMonitor                                                         *)
(*                                                                         *)
(* A file event is its type, its path, whether its timestamp is more than  *)
(* 60 seconds old (old) and whether the test of the code,                  *)
(* (now - timestamp).seconds < 60, holds for it (fresh): seconds is the     *)
(* age less its whole days, so an event of some days and less than a        *)
(* minute is old and fresh.  The handler's events are small files, no      *)
(* dependency manifests.  A notification is its id, its title and its      *)
(* acknowledged flag; the id is notif_<second>_<length of the list>.       *)
(***************************************************************************)
NoObserver == 0
NoThread == 0

rapid_changes_threshold == 5    \* analysis_thresholds, line 157
RecentWindow == 10              \* self.file_events[-10:], line 336
BatchLimit == 50                \* events_processed < 50, line 302

\* The code keeps the last 1000 events and the last 100 notifications when
\* it saves; the model keeps the last KeptEvents and KeptNotifications.
KeptEvents == 1
KeptNotifications == 1

MaxEvents == 2      \* events the handler puts on the queue in one behaviour
MaxStarts == 2      \* observers and loop threads started in one behaviour
MaxTicks == 1       \* periods of more than 60 seconds that pass
MaxAnalyses == 1    \* periodic analyses in one behaviour
MaxBurst == 11      \* events of a burst that is on the queue when the loop wakes
MaxCreated == 2     \* notifications a monitor creates while its saves are followed step by step

CodePath == "a.py"      \* a path with a code suffix
TextPath == "b.txt"     \* a path that is neither code nor a dependency manifest

FileEvent(type, path) ==
    [event_type |-> type, file_path |-> path, fresh |-> TRUE, old |-> FALSE]

\* What HurricaneFileHandler puts on the queue.
HandlerEvents == {FileEvent("modified", CodePath), FileEvent("created", CodePath)}

LastN(s, n) == IF Len(s) > n THEN SubSeq(s, Len(s) - n + 1, Len(s)) ELSE s


\* _save_file_events, lines 205-214.
SaveFileEvents(log) == Stored(LastN(log, KeptEvents))

\* _save_notifications, lines 216-225.
SaveNotifications(ns) == Stored(LastN(ns, KeptNotifications))

\* _load_file_events.
LoadFileEvents(f) == Loaded(f)

\* _load_notifications.
LoadNotifications(f) == Loaded(f)

\* _analyze_file_event, lines 336-338: the events among the last ten of the
\* log that have the path of the event and are less than 60 seconds old.
RecentEvents(log, e) ==
    {i \in 1..Len(log) : /\ i > Len(log) - RecentWindow
                         /\ log[i].file_path = e.file_path
                         /\ log[i].fresh}

\* _analyze_file_event: the titles of the notifications it creates, in order.
AnalysisTitles(log, e) ==
    (IF /\ e.event_type = "modified"
        /\ Cardinality(RecentEvents(log, e)) > rapid_changes_threshold
     THEN <<"Rapid File Changes">> ELSE <<>>)
    \o (IF e.file_path = CodePath /\ e.event_type = "created"
        THEN <<"New Code File">> ELSE <<>>)

\* _create_notification, lines 486-498.
Notification(ns, title, path) ==
    [id |-> <<clock, Len(ns)>>, title |-> title, context |-> path,
     acknowledged |-> FALSE]

RECURSIVE CreateNotifications(_, _, _)
CreateNotifications(ns, titles, path) ==
    IF titles = <<>> THEN ns
    ELSE CreateNotifications(Append(ns, Notification(ns, Head(titles), path)),
                             Tail(titles), path)

GhostNotification == <<0 - 1, 0>>   \* an id that names no notification

Stale(s) == [i \in 1..Len(s) |-> [s[i] EXCEPT !.fresh = FALSE, !.old = TRUE]]

\* timedelta.seconds of the age of an old event is below 60 again.
DayLater(s) == [i \in 1..Len(s) |-> [s[i] EXCEPT !.fresh = TRUE]]

MonFresh ==
    /\ is_monitoring = FALSE
    /\ observer = NoObserver
    /\ monitoring_thread = NoThread
    /\ loops = {}
    /\ event_queue = <<>>
    /\ file_events = <<>>
    /\ notifications = <<>>
    /\ events_file = NoFile
    /\ notifications_file = NoFile
    /\ stopper = "idle"
    /\ clock = 0
    /\ made = [observers |-> 0, threads |-> 0, events |-> 0, analyses |-> 0]
    /\ mon_call = [op |-> "none", result |-> "none"]

----
\* Mutation of AlreadyMonitoring: start_monitoring does not look at the flag.
AlreadyMonitoring_Unchecked == FALSE

\* start_monitoring, line 237.
AlreadyMonitoring == is_monitoring

\* start_monitoring, lines 235-255.
StartMonitoring ==
    /\ stopper = "idle"
    /\ IF AlreadyMonitoring
       THEN /\ mon_call' = [op |-> "start", result |-> "noop"]
            /\ UNCHANGED <<is_monitoring, observer, monitoring_thread, loops, made>>
       ELSE /\ made.threads < MaxStarts
            /\ observer' = made.observers + 1
            /\ is_monitoring' = TRUE
            /\ monitoring_thread' = made.threads + 1
            /\ loops' = loops \cup {[id |-> made.threads + 1, pc |-> "check", n |-> 0]}
            /\ made' = [made EXCEPT !.observers = @ + 1, !.threads = @ + 1]
            /\ mon_call' = [op |-> "start", result |-> "started"]
    /\ UNCHANGED <<event_queue, file_events, notifications, events_file,
                   notifications_file, stopper, clock>>
    /\ UNCHANGED <<masVars, planVars, storeVars>>

\* stop_monitoring, lines 257-270: the flag is cleared and the observer is
\* stopped and joined; the caller then joins the loop thread.
StopMonitoring ==
    /\ stopper = "idle"
    /\ IF ~is_monitoring
       THEN /\ mon_call' = [op |-> "stop", result |-> "noop"]
            /\ UNCHANGED <<is_monitoring, observer, stopper>>
       ELSE /\ is_monitoring' = FALSE
            /\ observer' = NoObserver
            /\ stopper' = "joining"
            /\ mon_call' = [op |-> "stop", result |-> "joining"]
    /\ UNCHANGED <<monitoring_thread, loops, event_queue, file_events, notifications,
                   events_file, notifications_file, clock, made>>
    /\ UNCHANGED <<masVars, planVars, storeVars>>

\* stop_monitoring, lines 272-276: join(timeout=5) returns when the loop
\* thread has ended, or after 5 seconds while the thread is still inside a
\* batch or inside the 5 second sleep of the loop's except branch;
\* stop_monitoring returns.
StopReturns ==
    /\ stopper = "joining"
    /\ \A th \in loops :
          th.id = monitoring_thread => th.pc \in {"batch", "taken", "broke", "backoff"}
    /\ monitoring_thread' = NoThread
    /\ stopper' = "idle"
    /\ mon_call' = [op |-> "stop", result |-> "stopped"]
    /\ UNCHANGED <<is_monitoring, observer, loops, event_queue, file_events,
                   notifications, events_file, notifications_file, clock, made>>
    /\ UNCHANGED <<masVars, planVars, storeVars>>

\* HurricaneFileHandler.on_created / on_modified, on the observer's thread.
HandlerPuts(e) ==
    /\ observer # NoObserver
    /\ made.events < MaxEvents
    /\ event_queue' = Append(event_queue, e)
    /\ made' = [made EXCEPT !.events = @ + 1]
    /\ UNCHANGED <<is_monitoring, observer, monitoring_thread, loops, file_events,
                   notifications, events_file, notifications_file, stopper, clock,
                   mon_call>>
    /\ UNCHANGED <<masVars, planVars, storeVars>>

SetLoop(th, new) == loops' = (loops \ {th}) \cup {new}

\* _monitoring_loop, line 282: the loop ends when is_monitoring is false,
\* else _process_file_events starts a batch.
LoopCheck(th) ==
    /\ th \in loops
    /\ th.pc = "check"
    /\ IF is_monitoring
       THEN SetLoop(th, [th EXCEPT !.pc = "batch", !.n = 0])
       ELSE loops' = loops \ {th}
    /\ UNCHANGED <<is_monitoring, observer, monitoring_thread, event_queue,
                   file_events, notifications, events_file, notifications_file,
                   stopper, clock, made, mon_call>>
    /\ UNCHANGED <<masVars, planVars, storeVars>>

\* _process_file_events, lines 302-310: one event is taken from the queue,
\* appended to the log and analysed; each notification is appended and saved.
ProcessEvent(th) ==
    /\ th \in loops
    /\ th.pc = "batch"
    /\ event_queue # <<>>
    /\ th.n < BatchLimit
    /\ LET e == Head(event_queue)
           log == Append(file_events, e)
           titles == AnalysisTitles(log, e)
           ns == CreateNotifications(notifications, titles, e.file_path)
       IN  /\ event_queue' = Tail(event_queue)
           /\ file_events' = log
           /\ notifications' = ns
           /\ notifications_file' = IF titles = <<>> THEN notifications_file
                                    ELSE SaveNotifications(ns)
    /\ SetLoop(th, [th EXCEPT !.n = @ + 1])
    /\ UNCHANGED <<is_monitoring, observer, monitoring_thread, events_file,
                   stopper, clock, made, mon_call>>
    /\ UNCHANGED <<masVars, planVars, storeVars>>

\* _process_file_events, lines 316-317, and _monitoring_loop, lines 288-292:
\* the batch ends (queue empty or 50 events done), the events are saved when
\* some were processed, the periodic analysis runs when its interval has
\* passed (it reports the missing project files), the loop sleeps.
BatchEnd(th, periodic) ==
    /\ th \in loops
    /\ \/ th.pc = "batch" /\ (event_queue = <<>> \/ th.n >= BatchLimit)
       \/ th.pc = "broke"
    /\ periodic => made.analyses < MaxAnalyses
    /\ events_file' = IF th.n > 0 THEN SaveFileEvents(file_events) ELSE events_file
    /\ LET ns == IF periodic
                 THEN CreateNotifications(notifications, <<"Missing Project Files">>, "")
                 ELSE notifications
       IN  /\ notifications' = ns
           /\ notifications_file' = IF periodic THEN SaveNotifications(ns)
                                    ELSE notifications_file
    /\ made' = [made EXCEPT !.analyses = IF periodic THEN @ + 1 ELSE @]
    /\ SetLoop(th, [th EXCEPT !.pc = "sleep"])
    /\ UNCHANGED <<is_monitoring, observer, monitoring_thread, event_queue,
                   file_events, stopper, clock, mon_call>>
    /\ UNCHANGED <<masVars, planVars, storeVars>>

\* _process_file_events, lines 304-314: the event is taken from the queue and
\* appended to the log, then its processing raises before events_processed is
\* incremented; the except branch prints the error and breaks out of the batch.
ProcessRaises(th) ==
    /\ th \in loops
    /\ th.pc = "batch"
    /\ event_queue # <<>>
    /\ th.n < BatchLimit
    /\ event_queue' = Tail(event_queue)
    /\ file_events' = Append(file_events, Head(event_queue))
    /\ SetLoop(th, [th EXCEPT !.pc = "broke"])
    /\ UNCHANGED <<is_monitoring, observer, monitoring_thread, notifications,
                   events_file, notifications_file, stopper, clock, made, mon_call>>
    /\ UNCHANGED <<masVars, planVars, storeVars>>

\* The loop threads once thread th has left the except branch of the loop.
AfterRaise_Ended(ls, th) == ls \ {th}

\* _monitoring_loop, lines 294-296: the except branch is inside the while
\* loop; it prints the error and sleeps 5 seconds, and the loop goes on.
AfterRaise(ls, th) == (ls \ {th}) \cup {[th EXCEPT !.pc = "backoff"]}

\* _process_file_events, lines 316-317, and _monitoring_loop, lines 288-296:
\* the batch ends and the events are saved when some were processed; the
\* interval test or the periodic analysis raises (monitoring_config read from
\* its file lacks a key) and the except branch of the loop runs.
BatchEndRaises(th) ==
    /\ th \in loops
    /\ \/ th.pc = "batch" /\ (event_queue = <<>> \/ th.n >= BatchLimit)
       \/ th.pc = "broke"
    /\ events_file' = IF th.n > 0 THEN SaveFileEvents(file_events) ELSE events_file
    /\ loops' = AfterRaise(loops, th)
    /\ UNCHANGED <<is_monitoring, observer, monitoring_thread, event_queue,
                   file_events, notifications, notifications_file, stopper, clock,
                   made, mon_call>>
    /\ UNCHANGED <<masVars, planVars, storeVars>>

\* FileEvent.timestamp of an event of the handler: the k-th event it puts.
Stamped(e, k) ==
    [event_type |-> e.event_type, file_path |-> e.file_path, fresh |-> e.fresh,
     old |-> e.old, timestamp |-> k]

\* HurricaneFileHandler.on_created / on_modified: the event put carries the
\* time it was made at.
HandlerStamps(e) == HandlerPuts(Stamped(e, made.events + 1))

\* _process_file_events, line 304: event_queue.get_nowait() returns the head
\* of the queue to the thread; another thread can run before line 305.
TakeEvent(th) ==
    /\ th \in loops
    /\ th.pc = "batch"
    /\ event_queue # <<>>
    /\ th.n < BatchLimit
    /\ event_queue' = Tail(event_queue)
    /\ SetLoop(th, [id |-> th.id, pc |-> "taken", n |-> th.n, held |-> Head(event_queue)])
    /\ UNCHANGED <<is_monitoring, observer, monitoring_thread, file_events,
                   notifications, events_file, notifications_file, stopper, clock,
                   made, mon_call>>
    /\ UNCHANGED <<masVars, planVars, storeVars>>

\* _process_file_events, lines 305-310: the event the thread took is appended
\* to the log and analysed; each notification is appended and saved.
ProcessTaken(th) ==
    /\ th \in loops
    /\ th.pc = "taken"
    /\ LET log == Append(file_events, th.held)
           titles == AnalysisTitles(log, th.held)
           ns == CreateNotifications(notifications, titles, th.held.file_path)
       IN  /\ file_events' = log
           /\ notifications' = ns
           /\ notifications_file' = IF titles = <<>> THEN notifications_file
                                    ELSE SaveNotifications(ns)
    /\ SetLoop(th, [id |-> th.id, pc |-> "batch", n |-> th.n + 1])
    /\ UNCHANGED <<is_monitoring, observer, monitoring_thread, event_queue,
                   events_file, stopper, clock, made, mon_call>>
    /\ UNCHANGED <<masVars, planVars, storeVars>>

\* _monitoring_loop, lines 292 and 296: time.sleep(1) or time.sleep(5) ends.
LoopWake(th) ==
    /\ th \in loops
    /\ th.pc \in {"sleep", "backoff"}
    /\ SetLoop(th, [th EXCEPT !.pc = "check"])
    /\ UNCHANGED <<is_monitoring, observer, monitoring_thread, event_queue,
                   file_events, notifications, events_file, notifications_file,
                   stopper, clock, made, mon_call>>
    /\ UNCHANGED <<masVars, planVars, storeVars>>

\* The notifications whose id is id, in list order.
Named(ns, id) == {i \in 1..Len(ns) : ns[i].id = id}

FirstNamed(ns, id) == CHOOSE i \in Named(ns, id) : \A j \in Named(ns, id) : i <= j

\* Mutation of Acknowledged: the flag is flipped.
Acknowledged_Flipped(n) == [n EXCEPT !.acknowledged = ~@]

\* acknowledge_notification, line 536.
Acknowledged(n) == [n EXCEPT !.acknowledged = TRUE]

\* acknowledge_notification, lines 532-540.
AcknowledgeNotification(id) ==
    /\ stopper = "idle"
    /\ IF Named(notifications, id) = {}
       THEN /\ mon_call' = [op |-> "acknowledge", result |-> "false"]
            /\ UNCHANGED <<notifications, notifications_file>>
       ELSE LET i == FirstNamed(notifications, id)
                ns == [notifications EXCEPT ![i] = Acknowledged(@)]
            IN  /\ notifications' = ns
                /\ notifications_file' = SaveNotifications(ns)
                /\ mon_call' = [op |-> "acknowledge",
                                result |-> IF notifications[i].acknowledged
                                           THEN "true_again" ELSE "true"]
    /\ UNCHANGED <<is_monitoring, observer, monitoring_thread, loops, event_queue,
                   file_events, events_file, stopper, clock, made>>
    /\ UNCHANGED <<masVars, planVars, storeVars>>

\* _save_notifications, lines 219-221, as the first step of a save that
\* another thread can interleave with: the snapshot of the list is taken.
Snapshot(who, ns) ==
    [who |-> who, data |-> SaveNotifications(ns), pc |-> "snapshot", mixed |-> FALSE]

\* _create_notification, lines 486-499, on the monitoring thread: the
\* notification is appended and _save_notifications takes its snapshot.
CreateNotificationBegin(title) ==
    /\ Len(notifications) < MaxCreated
    /\ ~\E w \in writers : w.who = "create"
    /\ LET ns == Append(notifications, Notification(notifications, title, CodePath))
       IN  /\ notifications' = ns
           /\ writers' = writers \cup {Snapshot("create", ns)}
    /\ UNCHANGED <<is_monitoring, observer, monitoring_thread, loops, event_queue,
                   file_events, events_file, notifications_file, stopper, clock,
                   made, mon_call>>
    /\ UNCHANGED <<masVars, planVars, workflows_file, boot>>

\* acknowledge_notification, lines 534-537, on the caller's thread: the flag
\* is set and _save_notifications takes its snapshot.
AcknowledgeBegin(id) ==
    /\ Named(notifications, id) # {}
    /\ ~\E w \in writers : w.who = "acknowledge"
    /\ LET i == FirstNamed(notifications, id)
           ns == [notifications EXCEPT ![i] = Acknowledged(@)]
       IN  /\ notifications' = ns
           /\ writers' = writers \cup {Snapshot("acknowledge", ns)}
    /\ UNCHANGED <<is_monitoring, observer, monitoring_thread, loops, event_queue,
                   file_events, events_file, notifications_file, stopper, clock,
                   made, mon_call>>
    /\ UNCHANGED <<masVars, planVars, workflows_file, boot>>

\* _save_notifications, line 222: open(..., 'w') empties the file.  A save
\* that has the file open at the same time as another shares it with that one.
SaveOpen(w) ==
    /\ w \in writers
    /\ w.pc = "snapshot"
    /\ LET shared == \E o \in writers : o.pc = "opened"
       IN  writers' = {[o EXCEPT !.mixed = @ \/ (o.pc = "opened")] : o \in writers \ {w}}
                      \cup {[w EXCEPT !.pc = "opened", !.mixed = shared]}
    /\ notifications_file' = Unparseable
    /\ UNCHANGED <<is_monitoring, observer, monitoring_thread, loops, event_queue,
                   file_events, notifications, events_file, stopper, clock, made,
                   mon_call>>
    /\ UNCHANGED <<masVars, planVars, workflows_file, boot>>

\* What the file holds once the save w has written its snapshot and closed
\* it; two saves that had the file open together write through two handles,
\* each from offset 0, and the one text overlays the other.
Written(w) == IF w.mixed THEN {w.data, Unparseable} ELSE {w.data}

\* _save_notifications, lines 222-223: json.dump writes the snapshot and the
\* file is closed.
SaveClose(w, c) ==
    /\ w \in writers
    /\ w.pc = "opened"
    /\ c \in Written(w)
    /\ notifications_file' = c
    /\ writers' = writers \ {w}
    /\ UNCHANGED <<is_monitoring, observer, monitoring_thread, loops, event_queue,
                   file_events, notifications, events_file, stopper, clock, made,
                   mon_call>>
    /\ UNCHANGED <<masVars, planVars, workflows_file, boot>>

\* More than 60 seconds pass: the events there are stop being recent.
Tick ==
    /\ clock < MaxTicks
    /\ clock' = clock + 1
    /\ event_queue' = Stale(event_queue)
    /\ file_events' = Stale(file_events)
    /\ UNCHANGED <<is_monitoring, observer, monitoring_thread, loops, notifications,
                   events_file, notifications_file, stopper, made, mon_call>>
    /\ UNCHANGED <<masVars, planVars, storeVars>>

----
(***************************************************************************)
(* Construction of a component on the store an earlier process left: the   *)
(* coroutines, threads and calls of that process are gone, and the         *)
(* collections are what the loaders make of the files.                     *)
(***************************************************************************)
Booted(component, raised) ==
    /\ boot.n < MaxBoots
    /\ boot' = [component |-> component, raised |-> raised, n |-> boot.n + 1]
    /\ UNCHANGED <<workflows_file, writers>>

\* AutonomousPlanner.__init__.
PlannerNew ==
    LET g == LoadGoals(goals_file)
        t == LoadPlannerTasks(ptasks_file)
        d == LoadDecisions(decisions_file)
    IN  /\ Booted("planner", g.raised \/ t.raised \/ d.raised)
        /\ goals' = g.value
        /\ ptasks' = t.value
        /\ decisions' = d.value
        /\ suggestions' = <<>>
        /\ pexecs' = EmptyBag
        /\ sg' = [pc |-> "idle", goal |-> NoGoal, response |-> NoResponse]
        /\ presult' = "none"
        /\ UNCHANGED <<goals_file, ptasks_file, decisions_file>>
        /\ UNCHANGED <<masVars, monVars>>

\* MultiAgentSystem.__init__.
MasNew ==
    LET a == LoadAgents(agents_file)
        t == LoadAgentTasks(tasks_file)
        w == LoadWorkflows(workflows_file)
    IN  /\ Booted("agents", a.raised \/ t.raised \/ w.raised)
        /\ agents' = a.value
        /\ tasks' = t.value
        /\ workflows' = w.value
        /\ task_queue' = <<>>
        /\ execs' = EmptyBag
        /\ wf' = Idle
        /\ UNCHANGED <<tasks_file, agents_file>>
        /\ UNCHANGED <<planVars, monVars>>

\* ReactiveMonitor.__init__.
MonitorNew ==
    LET e == LoadFileEvents(events_file)
        n == LoadNotifications(notifications_file)
    IN  /\ Booted("monitor", e.raised \/ n.raised)
        /\ file_events' = e.value
        /\ notifications' = n.value
        /\ is_monitoring' = FALSE
        /\ observer' = NoObserver
        /\ monitoring_thread' = NoThread
        /\ loops' = {}
        /\ event_queue' = <<>>
        /\ stopper' = "idle"
        /\ mon_call' = [op |-> "none", result |-> "none"]
        /\ UNCHANGED <<events_file, notifications_file, clock, made>>
        /\ UNCHANGED <<masVars, planVars>>

----
\* Whole days pass, less the time since the events became old.
DayTick ==
    /\ {i \in 1..Len(file_events) : ~file_events[i].fresh} # {}
    /\ event_queue' = DayLater(event_queue)
    /\ file_events' = DayLater(file_events)
    /\ UNCHANGED <<is_monitoring, observer, monitoring_thread, loops, notifications,
                   events_file, notifications_file, stopper, clock, made, mon_call>>
    /\ UNCHANGED <<masVars, planVars, storeVars>>

InitPlan ==
    /\ MasFresh(<<>>)
    /\ PlanFresh
    /\ MonFresh
    /\ boot = NoBoot
    /\ writers = {}

NextPlan ==
    \/ \E p \in GoalPriorities : SetGoalBegin(p)
    \/ sg.pc = "awaiting" /\ \E r \in Responses : SetGoalFinish(r)
    \/ AgentExecute
    \/ AgentNothing
    \/ \E t \in 1..MaxPTasks : ExecuteTask(t)
    \/ \E t \in 1..(MaxPTasks + 1) : ExecuteRejected(t)
    \/ \E e \in BagToSet(pexecs) : ExecuteResume(e)

SpecPlan == InitPlan /\ [][NextPlan]_vars

\* Answers of the service with autonomous tasks whose actions are a list of
\* one action, or null: the execution of such a task raises and blocks it.
BlockingItems ==
    [valid : {TRUE}, priority : ItemPriorities, dependencies : {{}}, deps_null : {FALSE},
     actions : {NullActions, MaxActions}, approval : {FALSE}]

BlockingResponses ==
    [kind : {"list"}, items : UNION {[1..n -> BlockingItems] : n \in 1..MaxPTasks}]

\* The planner with callers that keep calling, an event loop that keeps
\* running and a process that may end and be started again: while an
\* operation is possible, one is performed.
NextRetry ==
    \/ boot.n = 0 /\ \E p \in GoalPriorities : SetGoalBegin(p)
    \/ sg.pc = "awaiting" /\ \E r \in BlockingResponses : SetGoalFinish(r)
    \/ AgentExecute
    \/ AgentNothing
    \/ \E t \in 1..MaxPTasks : ExecuteTask(t)
    \/ \E t \in 1..(MaxPTasks + 1) : ExecuteRejected(t)
    \/ \E e \in BagToSet(pexecs) : ExecuteResume(e)
    \/ PlannerNew

FairRetry == InitPlan /\ [][NextRetry]_vars /\ WF_vars(NextRetry)

\* The dependencies a direct caller of create_task passes: ids of existing
\* tasks, or an id that names no task.
CallerDeps ==
    {d \in SUBSET ({GhostId} \cup DOMAIN tasks) : Cardinality(d) <= MaxDeps}

InitMAS ==
    /\ \E wfs \in StoredWorkflows : MasFresh(wfs)
    /\ PlanFresh
    /\ MonFresh
    /\ boot = NoBoot
    /\ writers = {}

NextMAS ==
    \/ \E r \in Roles, p \in Priorities, d \in CallerDeps : CreateTask(r, p, d)
    \/ \E id \in DOMAIN tasks : AssignTask(id)
    \/ \E e \in BagToSet(execs) : ExecStart(e)
    \/ \E e \in BagToSet(execs), ok \in BOOLEAN : ExecFinish(e, ok)
    \/ \E w \in DOMAIN workflows : WfStart(w)
    \/ WfNotFound
    \/ WfWake

SpecMAS == InitMAS /\ [][NextMAS]_vars

\* The event loop runs every scheduled coroutine and every sleep ends.
FairMAS ==
    /\ SpecMAS
    /\ \A id \in 1..MaxTasks :
          /\ WF_vars(ExecStart([task |-> id, pc |-> "start"]))
          /\ WF_vars(\E ok \in BOOLEAN : ExecFinish([task |-> id, pc |-> "running"], ok))
    /\ WF_vars(WfWake)

\* The ids a caller passes to acknowledge_notification.
CallerIds == {notifications[i].id : i \in 1..Len(notifications)} \cup {GhostNotification}

InitMon ==
    /\ MasFresh(<<>>)
    /\ PlanFresh
    /\ MonFresh
    /\ boot = NoBoot
    /\ writers = {}

NextMon ==
    \/ StartMonitoring
    \/ StopMonitoring
    \/ StopReturns
    \/ \E e \in HandlerEvents : HandlerPuts(e)
    \/ \E th \in loops : LoopCheck(th)
    \/ \E th \in loops : ProcessEvent(th)
    \/ \E th \in loops, periodic \in BOOLEAN : BatchEnd(th, periodic)
    \/ \E th \in loops : LoopWake(th)
    \/ \E id \in CallerIds : AcknowledgeNotification(id)

SpecMon == InitMon /\ [][NextMon]_vars

\* One step of a monitoring loop thread, exceptions included.
LoopStep ==
    \/ \E th \in loops : LoopCheck(th)
    \/ \E th \in loops : ProcessEvent(th)
    \/ \E th \in loops : ProcessRaises(th)
    \/ \E th \in loops, periodic \in BOOLEAN : BatchEnd(th, periodic)
    \/ \E th \in loops : BatchEndRaises(th)
    \/ \E th \in loops : LoopWake(th)

NextLoop ==
    \/ StartMonitoring
    \/ StopMonitoring
    \/ StopReturns
    \/ \E e \in HandlerEvents : HandlerPuts(e)
    \/ LoopStep

\* The monitor with exceptions in the loop; a loop thread is a running
\* thread.Thread, so it keeps taking steps, and join returns.
FairLoop ==
    /\ InitMon
    /\ [][NextLoop]_vars
    /\ WF_vars(LoopStep)
    /\ WF_vars(StopReturns)

\* The monitor, and a process that ends and another that constructs the
\* monitor on the store it left.
NextRemon ==
    \/ NextMon
    \/ MonitorNew

SpecRemon == InitMon /\ [][NextRemon]_vars

\* One step of a monitoring loop thread, the taking of an event and its
\* processing being two steps.
DrainStep ==
    \/ \E th \in loops : LoopCheck(th)
    \/ \E th \in loops : TakeEvent(th)
    \/ \E th \in loops : ProcessTaken(th)
    \/ \E th \in loops, periodic \in BOOLEAN : BatchEnd(th, periodic)
    \/ \E th \in loops : LoopWake(th)

NextDrain ==
    \/ StartMonitoring
    \/ StopMonitoring
    \/ StopReturns
    \/ \E e \in HandlerEvents : HandlerStamps(e)
    \/ DrainStep

\* The monitor with timestamped events; the loop threads keep taking steps
\* and join returns.
FairDrain ==
    /\ InitMon
    /\ [][NextDrain]_vars
    /\ WF_vars(DrainStep)
    /\ WF_vars(StopReturns)

\* A burst of modifications of two files, all less than 60 seconds old.
BurstEvents == {FileEvent("modified", CodePath), FileEvent("modified", TextPath)}

Bursts == UNION {[1..n -> BurstEvents] : n \in 0..MaxBurst}

\* Monitoring was started on a fresh project and the handler has put a burst
\* of events on the queue while the loop sleeps.
InitBurst ==
    /\ MasFresh(<<>>)
    /\ PlanFresh
    /\ is_monitoring = TRUE
    /\ observer = 1
    /\ monitoring_thread = 1
    /\ loops = {[id |-> 1, pc |-> "sleep", n |-> 0]}
    /\ event_queue \in Bursts
    /\ file_events = <<>>
    /\ notifications = <<>>
    /\ events_file = NoFile
    /\ notifications_file = NoFile
    /\ stopper = "idle"
    /\ clock = 0
    /\ made = [observers |-> 1, threads |-> 1, events |-> Len(event_queue),
               analyses |-> 0]
    /\ mon_call = [op |-> "start", result |-> "started"]
    /\ boot = NoBoot
    /\ writers = {}

NextBurst ==
    \/ \E th \in loops : LoopWake(th)
    \/ \E th \in loops : LoopCheck(th)
    \/ \E th \in loops : ProcessEvent(th)
    \/ \E th \in loops, periodic \in BOOLEAN : BatchEnd(th, periodic)
    \/ Tick
    \/ DayTick

SpecBurst == InitBurst /\ [][NextBurst]_vars

\* Mutation of GenerateProactiveSuggestions: the suggested task is started.
GenerateProactiveSuggestions_Starts(P, g) ==
    LET sug == SuggestionFor(P.goals, P.ptasks, g)
    IN  IF sug.kind # "some" THEN P
        ELSE [P EXCEPT !.suggestions = Append(@, sug.task),
                       !.ptasks[sug.task].status = "in_progress"]

\* _generate_proactive_suggestions, lines 344-375, as a call on the goals,
\* the tasks and the suggestions of the planner: what it leaves of them.
\* When it raises (SuggestionFor is "raise") it has changed nothing.
GenerateProactiveSuggestions(P, g) ==
    LET sug == SuggestionFor(P.goals, P.ptasks, g)
    IN  IF sug.kind # "some" THEN P
        ELSE [P EXCEPT !.suggestions = Append(@, sug.task)]

\* _generate_proactive_suggestions(goal_id) called for a goal of the planner.
Suggest(g) ==
    /\ g \in DOMAIN goals
    /\ Len(suggestions) < MaxSuggestions
    /\ LET R == GenerateProactiveSuggestions(
                    [goals |-> goals, ptasks |-> ptasks, suggestions |-> suggestions], g)
       IN  /\ goals' = R.goals
           /\ ptasks' = R.ptasks
           /\ suggestions' = R.suggestions
    /\ UNCHANGED <<decisions, pexecs, sg, presult, goals_file, ptasks_file, decisions_file>>
    /\ UNCHANGED <<masVars, monVars, storeVars>>

\* Answers of the service whose tasks have any of the four priorities, no
\* dependencies and one action, and need approval or not.
RankedItems ==
    [valid : {TRUE}, priority : TaskPriority, dependencies : {{}}, deps_null : {FALSE},
     actions : {MaxActions}, approval : BOOLEAN]

RankedResponses ==
    [kind : {"list"}, items : UNION {[1..n -> RankedItems] : n \in 1..MaxPTasks}]

NextRank ==
    \/ \E p \in GoalPriorities : SetGoalBegin(p)
    \/ sg.pc = "awaiting" /\ \E r \in RankedResponses : SetGoalFinish(r)
    \/ AgentExecute
    \/ AgentNothing
    \/ \E e \in BagToSet(pexecs) : ExecuteResume(e)
    \/ \E g \in DOMAIN goals : Suggest(g)

SpecRank == InitPlan /\ [][NextRank]_vars

\* Tasks created and assigned by direct calls, and their executions, which
\* the event loop runs on: a coroutine that can take a step takes it.
NextExec ==
    \/ \E r \in Roles, p \in Priorities, d \in CallerDeps : CreateTask(r, p, d)
    \/ \E id \in DOMAIN tasks : AssignTask(id)
    \/ \E e \in BagToSet(execs) : ExecStart(e)
    \/ \E e \in BagToSet(execs), ok \in BOOLEAN : ExecFinish(e, ok)

FairExec ==
    /\ InitPlan
    /\ [][NextExec]_vars
    /\ \A id \in 1..MaxTasks :
          /\ WF_vars(ExecStart([task |-> id, pc |-> "start"]))
          /\ WF_vars(\E ok \in BOOLEAN : ExecFinish([task |-> id, pc |-> "running"], ok))

\* Workflows whose steps have the default priority 3 or the highest, 5.
StepPriorities == {3, 5}

PrioritySteps(n) ==
    [agent : Roles, priority : StepPriorities,
     dependencies : {d \in SUBSET {StepRef(k) : k \in 1..n} : Cardinality(d) <= MaxDeps}]

PriorityWorkflows ==
    UNION {{<<s>> : s \in {l \in [1..n -> PrioritySteps(n)] :
                              \A k \in 1..n : StepRef(k) \notin l[k].dependencies}}
           : n \in 1..MaxSteps}

\* One stored workflow is executed on a fresh system.
InitPrio ==
    /\ \E wfs \in PriorityWorkflows : MasFresh(wfs)
    /\ PlanFresh
    /\ MonFresh
    /\ boot = NoBoot
    /\ writers = {}

NextPrio ==
    \/ \E w \in DOMAIN workflows : WfStart(w)
    \/ \E e \in BagToSet(execs) : ExecStart(e)
    \/ \E e \in BagToSet(execs), ok \in BOOLEAN : ExecFinish(e, ok)
    \/ WfWake

SpecPrio == InitPrio /\ [][NextPrio]_vars

\* The planner, and a process that ends and another that constructs the
\* planner on the store it left.  The goals of a behaviour are set by its
\* first process (MaxGoals counts them in the goals of that process).
NextRestart ==
    \/ boot.n = 0 /\ \E p \in GoalPriorities : SetGoalBegin(p)
    \/ sg.pc = "awaiting" /\ \E r \in Responses : SetGoalFinish(r)
    \/ AgentExecute
    \/ AgentNothing
    \/ \E t \in 1..MaxPTasks : ExecuteTask(t)
    \/ \E t \in 1..(MaxPTasks + 1) : ExecuteRejected(t)
    \/ \E e \in BagToSet(pexecs) : ExecuteResume(e)
    \/ PlannerNew

SpecRestart == InitPlan /\ [][NextRestart]_vars

\* The files of the store, in a fixed order.
Store == <<goals_file, ptasks_file, decisions_file, tasks_file, agents_file,
           workflows_file, events_file, notifications_file>>

Damaged(f) == f.kind \in {"corrupt", "other"}

\* What a process leaves in each file: nothing, or what the save of the
\* collection writes.
LeftGoals == {NoFile, SaveGoals(<<>>), SaveGoals(<<Goal("medium")>>)}
LeftPlannerTasks == {NoFile, SavePlannerTasks(<<FallbackTask(1, "medium")>>)}
LeftDecisions == {NoFile, SaveDecisions(<<1>>)}
LeftAgentTasks ==
    {NoFile,
     SaveAgentTasks(<<[AgentTask("coder", 3, {}) EXCEPT !.status = "in_progress"]>>)}
LeftAgents ==
    {NoFile, SaveAgents([[r \in Roles |-> Agent] EXCEPT !["coder"].current_task = 1])}
LeftWorkflows == {NoFile} \cup {Stored(<<s>>) : s \in {l \in StepLists : Len(l) = 1}}
LeftFileEvents == {NoFile, SaveFileEvents(<<FileEvent("modified", CodePath)>>)}
LeftNotifications ==
    {NoFile,
     SaveNotifications(<<[id |-> <<0, 0>>, title |-> "Rapid File Changes",
                          context |-> CodePath, acknowledged |-> FALSE]>>)}

\* The three components constructed on the store an earlier process left.
InitStore ==
    /\ goals_file \in LeftGoals
    /\ ptasks_file \in LeftPlannerTasks
    /\ decisions_file \in LeftDecisions
    /\ tasks_file \in LeftAgentTasks
    /\ agents_file \in LeftAgents
    /\ workflows_file \in LeftWorkflows
    /\ events_file \in LeftFileEvents
    /\ notifications_file \in LeftNotifications
    /\ goals = LoadGoals(goals_file).value
    /\ ptasks = LoadPlannerTasks(ptasks_file).value
    /\ decisions = LoadDecisions(decisions_file).value
    /\ suggestions = <<>>
    /\ pexecs = EmptyBag
    /\ sg = [pc |-> "idle", goal |-> NoGoal, response |-> NoResponse]
    /\ presult = "none"
    /\ agents = LoadAgents(agents_file).value
    /\ tasks = LoadAgentTasks(tasks_file).value
    /\ workflows = LoadWorkflows(workflows_file).value
    /\ task_queue = <<>>
    /\ execs = EmptyBag
    /\ wf = Idle
    /\ file_events = LoadFileEvents(events_file).value
    /\ notifications = LoadNotifications(notifications_file).value
    /\ is_monitoring = FALSE
    /\ observer = NoObserver
    /\ monitoring_thread = NoThread
    /\ loops = {}
    /\ event_queue = <<>>
    /\ stopper = "idle"
    /\ clock = 0
    /\ made = [observers |-> 0, threads |-> 0, events |-> 0, analyses |-> 0]
    /\ mon_call = [op |-> "none", result |-> "none"]
    /\ boot = NoBoot
    /\ writers = {}

\* Between two processes the i-th file of the store is damaged: it becomes
\* text that is no JSON, or JSON of another shape.
Damage(i, c) ==
    /\ Cardinality({j \in DOMAIN Store : Damaged(Store[j])}) < MaxDamage
    /\ ~Damaged(Store[i])
    /\ goals_file' = (IF i = 1 THEN c ELSE goals_file)
    /\ ptasks_file' = (IF i = 2 THEN c ELSE ptasks_file)
    /\ decisions_file' = (IF i = 3 THEN c ELSE decisions_file)
    /\ tasks_file' = (IF i = 4 THEN c ELSE tasks_file)
    /\ agents_file' = (IF i = 5 THEN c ELSE agents_file)
    /\ workflows_file' = (IF i = 6 THEN c ELSE workflows_file)
    /\ events_file' = (IF i = 7 THEN c ELSE events_file)
    /\ notifications_file' = (IF i = 8 THEN c ELSE notifications_file)
    /\ UNCHANGED <<tasks, task_queue, agents, workflows, execs, wf>>
    /\ UNCHANGED <<goals, ptasks, decisions, suggestions, pexecs, sg, presult>>
    /\ UNCHANGED <<is_monitoring, observer, monitoring_thread, loops, event_queue,
                   file_events, notifications, stopper, clock, made, mon_call>>
    /\ UNCHANGED <<boot, writers>>

NextStore ==
    \/ \E i \in DOMAIN Store, c \in {Unparseable, WrongShape} : Damage(i, c)
    \/ PlannerNew
    \/ MasNew
    \/ MonitorNew

SpecStore == InitStore /\ [][NextStore]_vars

\* The notifications of a monitor: the monitoring thread creates them, the
\* caller's thread acknowledges them, and each save is its three steps.
NextSave ==
    \/ \E title \in {"Rapid File Changes"} : CreateNotificationBegin(title)
    \/ \E id \in CallerIds : AcknowledgeBegin(id)
    \/ \E w \in writers : SaveOpen(w)
    \/ \E w \in writers, c \in {Unparseable} \cup {w.data : w \in writers} : SaveClose(w, c)
    \/ Tick

SpecSave == InitMon /\ [][NextSave]_vars

\* The multi-agent system, and a process that ends and another that
\* constructs the system on the store it left.
NextReboot ==
    \/ boot.n = 0 /\ NextMAS
    \/ boot.n > 0 /\ \E id \in DOMAIN tasks : AssignTask(id)
    \/ boot.n > 0 /\ \E e \in BagToSet(execs) : ExecStart(e)
    \/ boot.n > 0 /\ \E e \in BagToSet(execs), ok \in BOOLEAN : ExecFinish(e, ok)
    \/ MasNew

SpecReboot == InitMAS /\ [][NextReboot]_vars

----
(***************************************************************************)
(* Properties of MultiAgentSystem                                          *)
(***************************************************************************)
Active == {"assigned", "in_progress"}
Terminal == {"completed", "failed"}

ActiveTasksOf(r) ==
    {id \in DOMAIN tasks : tasks[id].assigned_agent = r /\ tasks[id].status \in Active}

\* C1: in every reachable state each agent role has at most one task
\* assigned to it whose status is ASSIGNED or IN_PROGRESS.
C1_SingleWorker == \A r \in Roles : Cardinality(ActiveTasksOf(r)) <= 1

\* A role is running one task while another task of the same role is
\* PENDING with nothing but the busy agent keeping assign_task from taking it.
C1_Witness ==
    \E a, b \in DOMAIN tasks :
        /\ a # b
        /\ tasks[a].assigned_agent = tasks[b].assigned_agent
        /\ tasks[a].status = "in_progress"
        /\ tasks[b].status = "pending"
        /\ DepsAllow(tasks, b)

StatusOf(id) == IF id \in DOMAIN tasks THEN tasks[id].status ELSE "none"

\* C2: no task is ASSIGNED or IN_PROGRESS while some id in its dependencies
\* list is not the id of a task with status COMPLETED (ids that name no
\* known task included).
C2_DependencyGating ==
    \A id \in DOMAIN tasks :
        tasks[id].status \in Active =>
            \A d \in tasks[id].dependencies :
                d \in DOMAIN tasks /\ tasks[d].status = "completed"

\* The workflow being executed is the stored definition.
WfSteps == IF workflows = <<>> THEN <<>> ELSE workflows[1]

\* Scenario B: the workflow has two steps for the same agent role, both
\* without dependencies.
ScenarioB ==
    /\ Len(WfSteps) = 2
    /\ WfSteps[1].agent \in Roles
    /\ WfSteps[1].agent = WfSteps[2].agent
    /\ WfSteps[1].dependencies = {} /\ WfSteps[2].dependencies = {}

\* C4: in scenario B a task that execute_workflow created and left PENDING
\* is eventually dispatched (it is never left PENDING forever).
C4_SecondDispatched ==
    \A id \in 1..MaxTasks :
        (ScenarioB /\ id \in wf.created /\ StatusOf(id) = "pending")
            ~> (StatusOf(id) # "pending")

\* The step references of the definition form no cycle (with at most one
\* reference per step: following them from any step ends).
RECURSIVE ReachesEnd(_, _, _)
ReachesEnd(steps, k, fuel) ==
    IF steps[k].dependencies = {} THEN TRUE
    ELSE IF fuel = 0 THEN FALSE
    ELSE \A d \in steps[k].dependencies : ReachesEnd(steps, 0 - d, fuel - 1)

Acyclic(steps) ==
    /\ \A k \in 1..Len(steps) : steps[k].agent \in Roles
    /\ \A k \in 1..Len(steps) : ReachesEnd(steps, k, Len(steps))

\* C6: for a workflow whose steps declare acyclic dependencies among its own
\* steps and whose task executions all succeed, execute_workflow eventually
\* returns.
C6_WorkflowReturns ==
    (wf.pc = "sleep" /\ Acyclic(WfSteps))
        ~> (wf.pc = "returned" \/ \E id \in DOMAIN tasks : tasks[id].status = "failed")

WfReturns == wf.pc # "returned" /\ wf'.pc = "returned"

\* C7: when execute_workflow returns success = True, every task it created
\* for the workflow is COMPLETED or FAILED.
C7_SuccessMeansTerminal ==
    [][(WfReturns /\ wf'.success) =>
          \A id \in wf'.created : tasks'[id].status \in Terminal]_vars

\* C8: if the execution of a task of the workflow ended in FAILED while
\* execute_workflow is running, execute_workflow eventually returns.
C8_FailureEndsWorkflow ==
    (wf.pc = "sleep" /\ \E id \in wf.created : tasks[id].status = "failed")
        ~> (wf.pc = "returned")

\* C9: if a task of the workflow is FAILED when execute_workflow returns,
\* the result does not report success = True.
C9_FailureReported ==
    [][(WfReturns /\ \E id \in wf'.created : tasks'[id].status = "failed")
          => ~wf'.success]_vars

----
(***************************************************************************)
(* Properties of AutonomousPlanner                                         *)
(***************************************************************************)

\* C3: for every goal with at least one subtask, progress_percentage equals
\* 100 * (number of its COMPLETED subtasks) / (number of its subtasks),
\* between the steps of execute_autonomous_task, after set_goal and after
\* every outcome of execute_autonomous_task.
C3_ProgressConsistent ==
    \A g \in DOMAIN goals :
        goals[g].subtasks # <<>> =>
            goals[g].progress_percentage
                = Pct(CompletedCount(goals, ptasks, g), Len(goals[g].subtasks))

\* Scenario A: the answer to set_goal was three autonomous tasks, the second
\* depending on the first and the third on the second.
ScenarioA ==
    /\ sg.pc = "returned"
    /\ sg.response.kind = "list"
    /\ Len(sg.response.items) = 3
    /\ \A k \in 1..3 :
          /\ sg.response.items[k].valid
          /\ ~sg.response.items[k].approval
          /\ ~sg.response.items[k].deps_null
          /\ sg.response.items[k].actions # NullActions
          /\ sg.response.items[k].dependencies
                = (IF k = 1 THEN {} ELSE {ItemRef(k - 1)})

GoalDone(g) ==
    /\ g \in DOMAIN goals
    /\ goals[g].progress_percentage = Pct100
    /\ goals[g].status = "completed"

\* C5: in scenario A, a caller that keeps running the next autonomous task
\* brings the goal to progress 100 and status completed: when its call
\* finds no next task and no execution is suspended, the goal is done.
C5_ChainCompletes ==
    [][(AgentNothing /\ ~NextRaises(ptasks) /\ ScenarioA /\ pexecs = EmptyBag)
          => GoalDone(sg.goal)]_vars

\* An answer that cannot be turned into the expected list of task records.
BadResponse(r) ==
    \/ r.kind \in {"raise", "not_json", "scalar", "object"}
    \/ r.kind = "list" /\ \E k \in 1..Len(r.items) : ~r.items[k].valid

IsFallbackOnly(g) ==
    /\ Len(goals[g].subtasks) = 1
    /\ LET t == ptasks[goals[g].subtasks[1]]
       IN  /\ t.fallback
           /\ t.human_approval_required
           /\ t.status = "planned"
           /\ t.dependencies = {} /\ ~t.deps_null

\* C10: when the service raised or its answer cannot be turned into the
\* list of task records, set_goal leaves the goal with exactly one subtask,
\* the fallback task (human_approval_required, PLANNED, no dependencies).
C10_FallbackOnly ==
    (sg.pc \in {"returned", "raised"} /\ BadResponse(sg.response))
        => IsFallbackOnly(sg.goal)

\* C11: after set_goal returns, whatever the generation service did, the new
\* goal has at least one subtask and every id in goal.subtasks is the id of
\* a task of the planner.
C11_AtLeastOneSubtask ==
    sg.pc = "returned" =>
        /\ Len(goals[sg.goal].subtasks) >= 1
        /\ \A i \in 1..Len(goals[sg.goal].subtasks) :
              goals[sg.goal].subtasks[i] \in DOMAIN ptasks

\* C12: once the status of a MultiAgentSystem task is COMPLETED or FAILED,
\* no later step (assign_task, execute_workflow, a task execution) changes it.
C12_TerminalImmutable ==
    [][\A id \in DOMAIN tasks :
          tasks[id].status \in Terminal => tasks'[id].status = tasks[id].status]_vars

\* A dependency of task t that is not the id of a COMPLETED task.
UnmetDependency(t) ==
    \E d \in ptasks[t].dependencies :
        ~(d \in DOMAIN ptasks /\ ptasks[d].status = "completed")

\* C20: no step moves to IN_PROGRESS or COMPLETED a PLANNED task that has a
\* dependency which is not a COMPLETED task; an explicit
\* execute_autonomous_task call does not bypass the dependency check.
C20_ExecuteChecksDependencies ==
    [][\A t \in DOMAIN ptasks :
          (ptasks[t].status = "planned" /\ UnmetDependency(t))
              => ptasks'[t].status \notin {"in_progress", "completed"}]_vars

----
(***************************************************************************)
(* Properties of ReactiveMonitor                                           *)
(***************************************************************************)

\* C14: acknowledge_notification on a notification that is already
\* acknowledged changes no notification, in the list or in the file, and
\* returns normally; with an id that names no notification it returns False
\* and changes nothing.
C14_AcknowledgeIdempotent ==
    [][\A id \in CallerIds :
          AcknowledgeNotification(id) =>
              /\ (/\ Named(notifications, id) # {}
                  /\ notifications[FirstNamed(notifications, id)].acknowledged)
                     => /\ notifications' = notifications
                        /\ notifications_file' = notifications_file
                        /\ mon_call'.result = "true_again"
              /\ Named(notifications, id) = {}
                     => /\ notifications' = notifications
                        /\ notifications_file' = notifications_file
                        /\ mon_call'.result = "false"]_vars

\* A second acknowledge_notification of the same notification has returned,
\* next to a notification that nobody acknowledged.
C14_Witness ==
    /\ mon_call = [op |-> "acknowledge", result |-> "true_again"]
    /\ \E i \in 1..Len(notifications) : ~notifications[i].acknowledged

\* C15: start_monitoring while monitoring is active, and stop_monitoring
\* while it is not, change neither is_monitoring nor the observer nor the
\* monitoring thread; a second start makes no observer and no thread.
C15_StartStopIdempotent ==
    [][/\ (StartMonitoring /\ is_monitoring)
             => UNCHANGED <<is_monitoring, observer, monitoring_thread, loops, made>>
       /\ (StopMonitoring /\ ~is_monitoring)
             => UNCHANGED <<is_monitoring, observer, monitoring_thread, loops, made>>]_vars

\* start_monitoring has returned without effect while the loop thread of the
\* first start runs.
C15_Witness ==
    /\ mon_call = [op |-> "start", result |-> "noop"]
    /\ is_monitoring
    /\ \E th \in loops : th.id = monitoring_thread

ModifiedEventsOf(p) ==
    {i \in 1..Len(file_events) :
        file_events[i].file_path = p /\ file_events[i].event_type = "modified"}

RapidNotificationsOf(p) ==
    {i \in 1..Len(notifications) :
        notifications[i].title = "Rapid File Changes" /\ notifications[i].context = p}

\* C16: when six 'modified' events for one path, all less than 60 seconds
\* old and with no earlier event for that path, have been processed, exactly
\* one 'Rapid File Changes' notification for that path has been created.
C16_OneRapidNotification ==
    \A p \in {CodePath, TextPath} :
        (/\ Cardinality(ModifiedEventsOf(p)) = 6
         /\ \A i \in ModifiedEventsOf(p) : ~file_events[i].old)
            => Cardinality(RapidNotificationsOf(p)) = 1

\* C17: when stop_monitoring returns, no event is left on the queue and the
\* events file holds the log with every event the handler had put.
C17_StopFlushesEvents ==
    [][StopReturns =>
          /\ event_queue' = <<>>
          /\ file_events' # <<>> => events_file' = SaveFileEvents(file_events')]_vars

\* C19: the event log and the notification log never hold more entries than
\* the code keeps, in memory as in the files, and the files hold the newest.
C19_LogsCapped ==
    /\ Len(file_events) <= KeptEvents
    /\ Len(notifications) <= KeptNotifications
    /\ Len(events_file.data) <= KeptEvents
    /\ Len(notifications_file.data) <= KeptNotifications
    /\ notifications_file.kind = "json"
          => notifications_file.data = LastN(notifications, KeptNotifications)

\* C13: when the store holds what the saves of a component write for its
\* current collections, constructing the component on that store gives the
\* same goals and planner tasks, the same agent tasks and agents
\* (current_task included), and the same notifications when they are no more
\* than the code keeps.
C13_SaveReloadRoundTrip ==
    [][/\ (/\ PlannerNew
           /\ goals_file = SaveGoals(goals)
           /\ ptasks_file = SavePlannerTasks(ptasks))
             => goals' = goals /\ ptasks' = ptasks
       /\ (/\ MasNew
           /\ tasks_file = SaveAgentTasks(tasks)
           /\ agents_file = SaveAgents(agents))
             => tasks' = tasks /\ agents' = agents
       /\ (/\ MonitorNew
           /\ notifications_file = SaveNotifications(notifications)
           /\ Len(notifications) <= KeptNotifications)
             => notifications' = notifications]_vars

\* The file could not be read as JSON: it is corrupted or unreadable.
Unreadable(f) == f.kind = "corrupt"

\* The collection c was loaded from the file f: empty when f could not be
\* read, the stored collection when f holds one.
LoadsOrDegrades(f, c) ==
    /\ Unreadable(f) => c = <<>>
    /\ f.kind = "json" => c = f.data

C21_ApprovalTasksStayPlanned ==
    [][\A t \in DOMAIN ptasks :
          ptasks[t].human_approval_required =>
              /\ ptasks[t].status = "planned"
              /\ ptasks'[t] = ptasks[t]
              /\ ExecuteRejected(t) => presult' = "needs_approval"]_vars

\* execute_autonomous_task was called with a task that requires approval and
\* has returned its error, next to a task that was executed.
C21_Witness ==
    /\ presult = "needs_approval"
    /\ \E t \in DOMAIN ptasks : ptasks[t].human_approval_required
    /\ \E t \in DOMAIN ptasks : ptasks[t].status = "completed"

\* The task a goes before the task b: its priority is higher (5 is the
\* highest), or the same and it was created earlier.
GoesBefore(a, b) ==
    \/ tasks[a].priority > tasks[b].priority
    \/ tasks[a].priority = tasks[b].priority /\ a < b

\* C22: of two tasks of a workflow for the same agent role that are both
\* ready from their creation, the one of lower priority (or, at the same
\* priority, the younger) is not dispatched while the other is PENDING.
C22_PriorityThenFifo ==
    \A a \in wf.created, b \in wf.created :
        (/\ tasks[a].assigned_agent = tasks[b].assigned_agent
         /\ tasks[a].dependencies = {}
         /\ tasks[b].dependencies = {}
         /\ GoesBefore(a, b)
         /\ tasks[a].status = "pending")
            => tasks[b].status = "pending"

\* critical > high > medium > low, as a rank.
Rank(p) ==
    IF p = "critical" THEN 0 ELSE IF p = "high" THEN 1 ELSE IF p = "medium" THEN 2 ELSE 3

\* A task is ready: PLANNED, no approval needed, every dependency a COMPLETED task.
ReadyTasksOf(ts) ==
    {t \in DOMAIN ts :
        /\ ts[t].status = "planned"
        /\ ~ts[t].human_approval_required
        /\ \A d \in ts[t].dependencies : d \in DOMAIN ts /\ ts[d].status = "completed"}

\* The task of S with the highest priority, the earliest created of them.
Best(ts, S) ==
    CHOOSE t \in S : \A u \in S :
        \/ Rank(ts[t].priority) < Rank(ts[u].priority)
        \/ Rank(ts[t].priority) = Rank(ts[u].priority) /\ t <= u

\* C23: get_next_autonomous_task returns None only when no task is ready,
\* and when it returns a task, that is the ready task of highest priority,
\* the earliest created of them (the agent executes the task it returns,
\* which the last decision names).
C23_NextIsBestReady ==
    [][/\ (AgentNothing /\ presult' = "no_tasks") => ReadyTasksOf(ptasks) = {}
       /\ AgentExecute =>
             /\ ReadyTasksOf(ptasks) # {}
             /\ decisions'[Len(decisions')] = Best(ptasks, ReadyTasksOf(ptasks))]_vars

\* The PLANNED tasks of the goal g that have no unmet dependency.
Suggestible(ts, g) ==
    {t \in DOMAIN ts :
        /\ ts[t].goal_context = g
        /\ ts[t].status = "planned"
        /\ \A d \in ts[t].dependencies : d \in DOMAIN ts /\ ts[d].status = "completed"}

\* C24: whenever a proactive suggestion is appended (after decomposition,
\* after a completion, or by a call of _generate_proactive_suggestions), the
\* task it names is a PLANNED task of its goal without unmet dependency, of
\* the highest priority among those and the earliest created of them.
C24_SuggestionIsBest ==
    [][Len(suggestions') = Len(suggestions) + 1 =>
          LET s == suggestions'[Len(suggestions')]
              g == ptasks'[s].goal_context
          IN  /\ s \in Suggestible(ptasks', g)
              /\ s = Best(ptasks', Suggestible(ptasks', g))]_vars

\* C25: a call of _generate_proactive_suggestions changes no goal and no
\* task, and leaves the suggestions as they were or with one more entry.
C25_SuggestionReadOnly ==
    [][\A g \in DOMAIN goals :
          Suggest(g) =>
              /\ UNCHANGED <<goals, ptasks>>
              /\ ActiveTasks(ptasks, g) = {} => suggestions' = suggestions
              /\ \/ suggestions' = suggestions
                 \/ /\ Len(suggestions') = Len(suggestions) + 1
                    /\ SubSeq(suggestions', 1, Len(suggestions)) = suggestions]_vars

\* Two suggestions, the one set_goal made and one a call of
\* _generate_proactive_suggestions made (no task has completed), while a task
\* is PLANNED and another is IN_PROGRESS.
C25_Witness ==
    /\ Len(suggestions) = 2
    /\ \A t \in DOMAIN ptasks : ptasks[t].status \in {"planned", "in_progress"}
    /\ \E t \in DOMAIN ptasks : ptasks[t].status = "planned"
    /\ \E t \in DOMAIN ptasks : ptasks[t].status = "in_progress"

\* The events of the log for the path of e that are not more than 60
\* seconds old: the 'modified' ones, and those among the last ten.
RecentModified(log, e) ==
    {i \in 1..Len(log) : /\ log[i].file_path = e.file_path
                         /\ log[i].event_type = "modified"
                         /\ ~log[i].old}

RecentInWindow(log, e) ==
    {i \in 1..Len(log) : /\ i > Len(log) - RecentWindow
                         /\ log[i].file_path = e.file_path
                         /\ ~log[i].old}

RapidCreated(ns, e) ==
    \E i \in 1..Len(ns) : /\ i > Len(notifications)
                          /\ ns[i].title = "Rapid File Changes"
                          /\ ns[i].context = e.file_path

\* C26: when a 'modified' event is processed and the log then holds more
\* than 5 'modified' events for its path that are not more than 60 seconds
\* old, a 'Rapid File Changes' notification is created, whatever events for
\* other paths lie between them; and when one is created, more than 5 of the
\* events counted are not more than 60 seconds old.
C26_RapidChangesDetected ==
    [][\A th \in loops :
          ProcessEvent(th) =>
              LET e == Head(event_queue)
              IN  /\ (/\ e.event_type = "modified"
                      /\ Cardinality(RecentModified(file_events', e))
                             > rapid_changes_threshold)
                        => RapidCreated(notifications', e)
                  /\ RapidCreated(notifications', e)
                        => Cardinality(RecentInWindow(file_events', e))
                               > rapid_changes_threshold]_vars

\* The execution of the task id has ended: COMPLETED or FAILED, its agent
\* released, no _execute_task coroutine left for it.
ExecutionEnded(id) ==
    /\ tasks[id].status \in {"completed", "failed"}
    /\ agents[tasks[id].assigned_agent].current_task = NoTask
    /\ \A e \in BagToSet(execs) : e.task # id

\* C27: a task that assign_task has dispatched (ASSIGNED, its coroutine
\* scheduled) eventually ends its execution COMPLETED or FAILED with its
\* agent's current_task cleared; and the end of an execution, a failure
\* included, changes no other task and drops no other coroutine.
C27_DispatchedTasksEnd ==
    /\ \A id \in 1..MaxTasks :
          (id \in DOMAIN tasks /\ tasks[id].status = "assigned")
              ~> (id \in DOMAIN tasks /\ ExecutionEnded(id))
    /\ [][\A e \in BagToSet(execs), ok \in BOOLEAN :
             ExecFinish(e, ok) =>
                 /\ \A id \in DOMAIN tasks : id # e.task => tasks'[id] = tasks[id]
                 /\ \A f \in BagToSet(execs) : f # e => f \in BagToSet(execs')
                 /\ \A r \in Roles :
                       r # tasks[e.task].assigned_agent => agents'[r] = agents[r]]_vars

\* A coder task has FAILED and released its agent while the task of the
\* reviewer is IN_PROGRESS.
C27_Witness ==
    \E a \in DOMAIN tasks, b \in DOMAIN tasks :
        /\ tasks[a].status = "failed"
        /\ agents[tasks[a].assigned_agent].current_task = NoTask
        /\ tasks[b].status = "in_progress"
        /\ agents[tasks[b].assigned_agent].current_task = b

\* C28: a planner task that is BLOCKED is PLANNED again later, when the
\* callers keep performing the operations of the planner.
C28_BlockedIsPlannedAgain ==
    \A t \in 1..MaxPTasks :
        (t \in DOMAIN ptasks /\ ptasks[t].status = "blocked")
            ~> (t \in DOMAIN ptasks /\ ptasks[t].status = "planned")

\* No operation of the planner, and no construction of a planner on the
\* store, changes the status of a BLOCKED task.
BlockedStaysBlocked ==
    [][\A t \in DOMAIN ptasks :
          ptasks[t].status = "blocked"
              => t \in DOMAIN ptasks' /\ ptasks'[t].status = "blocked"]_vars

\* C29: when execute_workflow has created the tasks of a workflow (before it
\* coordinates them), every one of them is PENDING and each id in its
\* dependencies is the id of another task created by that call.
C29_WorkflowDependenciesRemapped ==
    [][\A w \in DOMAIN workflows :
          WfStart(w) =>
              LET c == CreateSteps(Sys, workflows[w], <<>>)
              IN  \A id \in SeqToSet(c.ids) :
                      /\ c.S.tasks[id].status = "pending"
                      /\ c.S.tasks[id].dependencies \subseteq SeqToSet(c.ids) \ {id}]_vars

\* C30: while is_monitoring is true, an exception raised while a file event is
\* processed or during the periodic analysis never ends the monitoring loop:
\* the thread that raised is still a loop thread after the step, and while
\* monitoring stays on the queued events are taken from the queue by later
\* iterations.
C30_LoopSurvivesExceptions ==
    /\ [][(is_monitoring /\ \E th \in loops : ProcessRaises(th) \/ BatchEndRaises(th))
             => {th.id : th \in loops'} = {th.id : th \in loops}]_vars
    /\ [](is_monitoring => \E th \in loops : th.id = monitoring_thread)
    /\ (is_monitoring /\ event_queue # <<>>) ~> (event_queue = <<>> \/ ~is_monitoring)

\* Monitoring is on and its only loop thread, after an iteration in which the
\* processing of an event raised (that event is in the log and was never
\* saved), has taken the next event from the queue in a later iteration.
C30_Witness ==
    /\ is_monitoring
    /\ made.threads = 1
    /\ event_queue = <<>>
    /\ Len(file_events) = 2
    /\ events_file = NoFile
    /\ \E th \in loops : th.id = monitoring_thread /\ th.pc = "batch" /\ th.n = 1

\* C31: in every reachable state of MultiAgentSystem, states reached after
\* the system is constructed again on the persisted store included, the
\* current_task of an agent is task t exactly when t is a task of the agent's
\* role whose status is ASSIGNED or IN_PROGRESS, and is null exactly when the
\* role has no such task.
C31_CurrentTaskConsistent ==
    \A r \in Roles :
        IF agents[r].current_task = NoTask
        THEN ActiveTasksOf(r) = {}
        ELSE ActiveTasksOf(r) = {agents[r].current_task}

\* The calls of execute_autonomous_task for task t that wait for an action.
InFlight(t) == {e \in BagToSet(pexecs) : e.task = t}

\* C32: when two execute_autonomous_task calls for the same PLANNED task run
\* concurrently on the event loop, exactly one of them executes the task's
\* actions: while one call waits for an action, another call for the task is
\* not accepted and returns the 'not in planned state' error, so one call at
\* most is in flight for a task and one autonomous_execution decision at most
\* is recorded for it.
C32_OneExecutionPerTask ==
    /\ [](\A t \in 1..MaxPTasks :
            /\ Cardinality({i \in DOMAIN decisions : decisions[i] = t}) <= 1
            /\ \A e \in InFlight(t) : InFlight(t) = {e} /\ CopiesIn(e, pexecs) = 1)
    /\ [][\A t \in 1..MaxPTasks :
            InFlight(t) # {} =>
                /\ ~ExecuteTask(t)
                /\ ExecuteRejected(t) => presult' = "not_planned"]_vars

\* The only task of the planner is waiting for an action of its one call, and
\* a second call for it has returned the 'not in planned state' error.
C32_Witness ==
    /\ Len(ptasks) = 1
    /\ InFlight(1) # {}
    /\ ~ptasks[1].human_approval_required
    /\ presult = "not_planned"
    /\ Len(decisions) = 1

\* The loop threads that are inside the body of the while loop.
InLoopBody == {th \in loops : th.pc # "check"}

\* C33: after any sequence of start_monitoring and stop_monitoring calls, at
\* most one monitoring-loop thread is running the loop body at any time, also
\* when the join of stop_monitoring timed out while the old loop was inside
\* an iteration and start_monitoring was called again.
C33_OneLoopThread == Cardinality(InLoopBody) <= 1

\* C34: when acknowledge_notification (caller's thread) and
\* _create_notification (monitoring thread) run concurrently, once both have
\* finished the notifications file holds both updates: it is what a save of
\* the list with the new notification and the acknowledged flag writes, in
\* every interleaving of their steps.
C34_NoLostUpdate ==
    (writers = {} /\ notifications # <<>>)
        => notifications_file = SaveNotifications(notifications)

\* C35: when execute_workflow returns a failure because the creation of the
\* task of one of its steps raised, no task of that workflow remains in the
\* task map or the task queue: both are as they were before the call.
C35_WorkflowCreationAllOrNothing ==
    [][\A w \in DOMAIN workflows :
          (WfStart(w) /\ CreateSteps(Sys, workflows[w], <<>>).raised)
              => /\ wf'.pc = "returned" /\ ~wf'.success
                 /\ tasks' = tasks
                 /\ task_queue' = task_queue]_vars

\* C36: when execute_autonomous_task rejects a call (unknown task id, task
\* that requires human approval, or status that is not PLANNED) it returns an
\* error result and leaves every task, every goal, the decision history and
\* the suggestion list unchanged; a call that is to be rejected is never
\* executed.
C36_RejectionChangesNothing ==
    [][\A t \in 1..(MaxPTasks + 1) :
          /\ ExecuteRejected(t) =>
                /\ presult' \in {"not_found", "needs_approval", "not_planned"}
                /\ UNCHANGED <<goals, ptasks, decisions, suggestions>>
                /\ UNCHANGED <<goals_file, ptasks_file, decisions_file, pexecs>>
          /\ Rejection(ptasks, t) # "ok" => ~ExecuteTask(t)]_vars

\* A call with an id that names no task has been rejected while the planner
\* holds a goal, tasks, a decision and a suggestion.
C36_Witness ==
    /\ presult = "not_found"
    /\ goals # <<>>
    /\ ptasks # <<>>
    /\ decisions # <<>>
    /\ suggestions # <<>>

\* C37: once execute_autonomous_task has set a task to COMPLETED (all of its
\* autonomous actions succeeded) the task stays COMPLETED: the step in which
\* the last action of a task is done leaves the task COMPLETED, whatever
\* happens in the goal-progress update and the suggestion generation that
\* follow, and a COMPLETED task is never BLOCKED later.
C37_CompletedStaysCompleted ==
    [][/\ \A e \in BagToSet(pexecs) :
              (ExecuteResume(e) /\ e.left = 1) => ptasks'[e.task].status = "completed"
       /\ \A t \in DOMAIN ptasks :
              /\ (ExecuteTask(t) /\ ptasks[t].actions = 0)
                    => ptasks'[t].status = "completed"
              /\ (ptasks[t].status = "completed" /\ t \in DOMAIN ptasks')
                    => ptasks'[t].status = "completed"]_vars

\* The timestamps of the events of the log, in log order.
Logged == [i \in 1..Len(file_events) |-> file_events[i].timestamp]

\* C38: while monitoring stays active, every file event the handler puts on
\* the queue is eventually appended to the event log, exactly once, and the
\* events are in the log in the order they were put on the queue.
C38_EventsLoggedInOrder ==
    /\ [](\A i, j \in 1..Len(file_events) : i < j => Logged[i] < Logged[j])
    /\ \A k \in 1..MaxEvents :
          (is_monitoring /\ made.events >= k)
              ~> (~is_monitoring \/ \E i \in 1..Len(file_events) : Logged[i] = k)

\* C39: no two notifications that are in the notification log at the same
\* time have the same id, after any sequence of creations, saves that keep
\* the last notifications only, and reloads from the store.
C39_UniqueNotificationIds ==
    \A i, j \in 1..Len(notifications) :
        i # j => notifications[i].id # notifications[j].id

====
